---- MODULE Spec2Model ----
(***************************************************************************)
(* Verification model of the ritcher HLS/DASH ad stitcher.                 *)
(*                                                                         *)
(* The module holds several specifications over one set of variables, one  *)
(* per part of the program:                                                *)
(*   SpecHls      hls::cue::detect_ad_breaks and ad::interleaver           *)
(*   SpecUrl      server::url_validation::validate_origin_url              *)
(*   SpecSrv      the playlist, manifest, segment and ad handlers          *)
(*   SpecTrk      ad::tracking::events_for_segment over one ad             *)
(*   SpecVast     VastAdProvider::fetch_vast and its wrapper chains        *)
(*   FairSpecVast SpecVast with the calls running to completion            *)
(*   SpecSgai     hls::interstitial on any playlist and any break list     *)
(*   SpecSes      session::manager::SessionManager, Memory backend         *)
(*   SpecAds      VastAdProvider::get_ad_segments with its creative cache  *)
(*   SpecDash     dash::interleaver::interleave_ads_mpd                    *)
(*   SpecRewrite  hls::parser::rewrite_content_urls, applied twice         *)
(*   SpecMaster   hls::parser::rewrite_master_urls and a rendition request *)
(*   SpecMpdUrls  dash::parser::rewrite_dash_urls                          *)
(*   SpecResolve  ad URIs of stitched playlists through resolve_segment_url*)
(*   SpecConcurrent  concurrent get_or_create calls on either backend      *)
(* Each specification leaves the variables of the other parts unchanged.   *)
(***************************************************************************)
EXTENDS Integers, Sequences, FiniteSets, TLC

VARIABLES
    \* ---- HLS pipeline (process_playlist, SSAI branch) ----
    hpc,                    \* position in the pipeline
    playlist,               \* MediaPlaylist.segments as parsed from the origin
    ad_breaks,              \* result of detect_ad_breaks
    ad_segments_per_break,  \* one Vec<AdSegment> per break (get_ad_segments)
    out_segments,           \* MediaPlaylist.segments after ad insertion
    stitching_mode,         \* config.stitching_mode: "Ssai" or "Sgai"
    \* ---- origin URL validator ----
    upc,                    \* "input" before, "validated" after validate_origin_url
    url,                    \* the parsed form of the string handed to the validator
    verdict,                \* Result<(), RitcherError> of validate_origin_url
    \* ---- stitch handlers (playlist, manifest, segment) ----
    config_origin,          \* config.origin_url
    req,                    \* the request being answered
    upstream,               \* the upstream GETs issued for that request, in order
    resp,                   \* the response sent
    attempt_log,            \* the byte handlers' retry loop: outcome of each attempt, and the sleeps
    proxied_bytes,          \* the body a byte handler passed through, <<>> if none
    beacons,                \* the tracking beacons dispatched so far (fire_beacon calls)
    ad_served,              \* the ad names served with 200 so far
    \* ---- tracking of one ad's segments (ad/tracking.rs) ----
    total_segments,         \* number of segments of the ad
    tracking_events,        \* the ad's VAST tracking events
    next_segment,           \* index of the segment served next
    last_fired,             \* events_for_segment of the segment served last
    fired,                  \* how often each event name has fired so far
    \* ---- VastAdProvider::fetch_vast ----
    vpc,                    \* "start", "running" or "done"
    vstack,                 \* the active fetch_vast calls, outermost first
    vresult,                \* Option<Vec<creative>> returned by the outermost call
    vguard,                 \* whether a call was cut off by the depth check
    \* ---- session manager (session/manager.rs, Memory backend) ----
    sessions,               \* the DashMap: session id -> Session
    now,                    \* the reading of SystemTime::now()
    session_ttl,            \* SessionManager.ttl
    expired_seen,           \* ids a cleanup run has met expired since their last touch
    handled,                \* session ids of the stitch requests handled so far
    \* ---- VastAdProvider: get_ad_segments, creative cache, slate fallback ----
    slate,                  \* VastAdProvider.slate: Option<SlateProvider>
    ad_cache,               \* the DashMap: cache key -> ResolvedCreative
    ad_cache_inserted_at,   \* cache key -> clock reading when the entry was stored
    ad_call,                \* the last provider operation and its arguments
    ad_out,                 \* what the last get_ad_segments call came to
    \* ---- DASH: dash::interleaver::interleave_ads_mpd ----
    dpc,                    \* "input", then "interleaved" or "panicked"
    mpd,                    \* MPD.periods handed to interleave_ads_mpd
    dash_ad_breaks,         \* the DashAdBreak list
    dash_ad_segments,       \* one Vec<AdSegment> per break
    mpd_out,                \* MPD.periods of the returned MPD
    \* ---- URL rewriting (hls/parser.rs, dash/parser.rs) ----
    wpc,                    \* position: "input", "rewritten", "again", "requested"
    doc_in,                 \* the document handed to the rewrite function
    doc_out,                \* the document it returned
    doc_again,              \* the result of a second application
    track_type,             \* serve_playlist's track_type of a follow-up request
    \* ---- ad URIs from playlist to serve_ad (handlers/playlist.rs, handlers/ad.rs) ----
    ad_provider,            \* AD_PROVIDER_TYPE: "static" or "vast"
    emitted,                \* the ad URIs in the playlists sent: session, name, creative URL
    resolved,               \* the last serve_ad request and what its name resolved to
    \* ---- concurrent get_or_create (session/manager.rs) ----
    backend,                \* "Memory" or "Valkey"
    callers                 \* per request task: its position, arguments, GET reply, result

hlsVars == <<hpc, playlist, ad_breaks, ad_segments_per_break, out_segments, stitching_mode>>
urlVars == <<upc, url, verdict>>
srvVars == <<config_origin, req, upstream, resp, attempt_log, proxied_bytes, beacons, ad_served>>

trkVars == <<total_segments, tracking_events, next_segment, last_fired, fired>>
vastVars == <<vpc, vstack, vresult, vguard>>

sesVars == <<sessions, now, session_ttl, expired_seen, handled>>

adsVars == <<slate, ad_cache, ad_cache_inserted_at, ad_call, ad_out>>

coreVars == <<hlsVars, urlVars, srvVars, trkVars, vastVars>>
dashVars == <<dpc, mpd, dash_ad_breaks, dash_ad_segments, mpd_out>>

rwVars == <<wpc, doc_in, doc_out, doc_again, track_type>>

rsVars == <<ad_provider, emitted, resolved>>
gcVars == <<backend, callers>>

moreVars == <<rwVars, rsVars, gcVars>>
laterVars == <<sesVars, adsVars, dashVars, moreVars>>
notSes == <<coreVars, adsVars, dashVars, moreVars>>
notAds == <<coreVars, sessions, expired_seen, handled, dashVars, moreVars>>
notDash == <<coreVars, sesVars, adsVars, moreVars>>
notRw == <<coreVars, sesVars, adsVars, dashVars, rsVars, gcVars>>

vars == <<coreVars, laterVars>>

(***************************************************************************)
(* Bounds of the model.                                                    *)
(***************************************************************************)
MaxSegs == 3        \* segments of a media playlist
MaxAds == 2         \* ad segments a provider returns for one break

(***************************************************************************)
(* Generic helpers.                                                        *)
(***************************************************************************)
RECURSIVE SeqsUpTo(_, _)
SeqsUpTo(S, n) ==
    IF n = 0 THEN {<<>>}
    ELSE LET shorter == SeqsUpTo(S, n - 1)
         IN shorter \cup {Append(s, x) : s \in {t \in shorter : Len(t) = n - 1}, x \in S}

SeqsOfLen(S, n) == {s \in SeqsUpTo(S, n) : Len(s) = n}

RECURSIVE SumSeq(_)
SumSeq(s) == IF s = <<>> THEN 0 ELSE Head(s) + SumSeq(Tail(s))

Chars(str) ==
    CASE str = "30" -> <<"3", "0">>
      [] str = "60" -> <<"6", "0">>
      [] str = " 15 " -> <<" ", "1", "5", " ">>
      [] str = "DURATION=60" -> <<"D", "U", "R", "A", "T", "I", "O", "N", "=", "6", "0">>
      [] str = "10/30" -> <<"1", "0", "/", "3", "0">>
      [] str = "abc" -> <<"a", "b", "c">>
      [] str = "-5" -> <<"-", "5">>
      [] str = "NaN" -> <<"N", "a", "N">>
      [] str = "DURATION=-5" -> <<"D", "U", "R", "A", "T", "I", "O", "N", "=", "-", "5">>
      [] OTHER -> <<>>

Some(v) == [some |-> TRUE, val |-> v]

(***************************************************************************)
(* f32 values: a number, +infinity or NaN.  str::parse::<f32> on the forms *)
(* that occur in CUE tags: an optional sign and decimal digits, inf, NaN.  *)
(***************************************************************************)
F32(n) == [nan |-> FALSE, inf |-> FALSE, v |-> n]
F32NaN == [nan |-> TRUE, inf |-> FALSE, v |-> 0]
F32Inf == [nan |-> FALSE, inf |-> TRUE, v |-> 0]
NoneF32 == [some |-> FALSE, val |-> F32(0)]

Digits == {"0", "1", "2", "3", "4", "5", "6", "7", "8", "9"}

DigitVal(c) ==
    CASE c = "0" -> 0 [] c = "1" -> 1 [] c = "2" -> 2 [] c = "3" -> 3 [] c = "4" -> 4
      [] c = "5" -> 5 [] c = "6" -> 6 [] c = "7" -> 7 [] c = "8" -> 8 [] c = "9" -> 9

RECURSIVE DigitsVal(_, _)
DigitsVal(s, acc) ==
    IF s = <<>> THEN acc ELSE DigitsVal(Tail(s), 10 * acc + DigitVal(Head(s)))

IsDigits(s) == Len(s) > 0 /\ \A i \in 1..Len(s) : s[i] \in Digits

RECURSIVE TrimStart(_)
TrimStart(s) == IF s # <<>> /\ Head(s) = " " THEN TrimStart(Tail(s)) ELSE s

RECURSIVE TrimEnd(_)
TrimEnd(s) ==
    IF s # <<>> /\ s[Len(s)] = " " THEN TrimEnd(SubSeq(s, 1, Len(s) - 1)) ELSE s

Trim(s) == TrimEnd(TrimStart(s))

ParseF32(s) ==
    IF s = <<"N", "a", "N">> THEN Some(F32NaN)
    ELSE IF s = <<"i", "n", "f">> THEN Some(F32Inf)
    ELSE IF IsDigits(s) THEN Some(F32(DigitsVal(s, 0)))
    ELSE IF Len(s) > 1 /\ s[1] = "-" /\ IsDigits(Tail(s)) THEN Some(F32(0 - DigitsVal(Tail(s), 0)))
    ELSE IF Len(s) > 1 /\ s[1] = "+" /\ IsDigits(Tail(s)) THEN Some(F32(DigitsVal(Tail(s), 0)))
    ELSE NoneF32

\* str::find('='): the 1-based position of the first '=', 0 when absent
FindEq(s) ==
    IF \E i \in 1..Len(s) : s[i] = "="
    THEN CHOOSE i \in 1..Len(s) : s[i] = "=" /\ \A j \in 1..(i - 1) : s[j] # "="
    ELSE 0

(***************************************************************************)
(* hls/cue.rs                                                              *)
(***************************************************************************)
ExtTag(name, rest) == [tag |-> name, has_rest |-> TRUE, rest |-> Chars(rest)]
ExtTagBare(name) == [tag |-> name, has_rest |-> FALSE, rest |-> <<>>]

AdBreak(s, e, d) == [start_index |-> s, end_index |-> e, duration |-> d]

is_cue_in(tag_name) == tag_name = "X-CUE-IN" \/ tag_name = "CUE-IN"

is_cue_out_cont(tag_name) == tag_name = "X-CUE-OUT-CONT" \/ tag_name = "CUE-OUT-CONT"

parse_cue_out(tag_name, has_rest, rest) ==
    IF ~(tag_name = "X-CUE-OUT" \/ tag_name = "CUE-OUT") THEN NoneF32
    ELSE IF ~has_rest THEN NoneF32
    ELSE LET eq_pos == FindEq(rest)
             after == IF eq_pos > 0
                      THEN ParseF32(Trim(SubSeq(rest, eq_pos + 1, Len(rest))))
                      ELSE NoneF32
         IN IF after.some THEN after ELSE ParseF32(Trim(rest))

NoCurrentBreak == [some |-> FALSE, start |-> 0, duration |-> F32(0)]

\* ScanTags without `if current_break.is_none()`: a nested CUE-OUT restarts the break
RECURSIVE ScanTags_Reopen(_, _, _, _, _)
ScanTags_Reopen(tags, k, index, cur, acc) ==
    IF k > Len(tags) THEN [current_break |-> cur, ad_breaks |-> acc]
    ELSE LET tag == tags[k]
         IN IF is_cue_in(tag.tag)
            THEN IF cur.some
                 THEN ScanTags_Reopen(tags, k + 1, index, NoCurrentBreak,
                                      Append(acc, AdBreak(cur.start, index, cur.duration)))
                 ELSE ScanTags_Reopen(tags, k + 1, index, cur, acc)
            ELSE IF is_cue_out_cont(tag.tag)
            THEN ScanTags_Reopen(tags, k + 1, index, cur, acc)
            ELSE LET d == parse_cue_out(tag.tag, tag.has_rest, tag.rest)
                 IN IF d.some
                    THEN ScanTags_Reopen(tags, k + 1, index,
                                         [some |-> TRUE, start |-> index, duration |-> d.val],
                                         acc)
                    ELSE ScanTags_Reopen(tags, k + 1, index, cur, acc)

\* the inner loop of detect_ad_breaks over one segment's unknown_tags
RECURSIVE ScanTags(_, _, _, _, _)
ScanTags(tags, k, index, cur, acc) ==
    IF k > Len(tags) THEN [current_break |-> cur, ad_breaks |-> acc]
    ELSE LET tag == tags[k]
         IN IF is_cue_in(tag.tag)
            THEN IF cur.some
                 THEN ScanTags(tags, k + 1, index, NoCurrentBreak,
                               Append(acc, AdBreak(cur.start, index, cur.duration)))
                 ELSE ScanTags(tags, k + 1, index, cur, acc)
            ELSE IF is_cue_out_cont(tag.tag)
            THEN ScanTags(tags, k + 1, index, cur, acc)
            ELSE LET d == parse_cue_out(tag.tag, tag.has_rest, tag.rest)
                 IN IF d.some /\ ~cur.some
                    THEN ScanTags(tags, k + 1, index,
                                  [some |-> TRUE, start |-> index, duration |-> d.val], acc)
                    ELSE ScanTags(tags, k + 1, index, cur, acc)

\* the outer loop of detect_ad_breaks; index is the 0-based segment index
RECURSIVE ScanSegments(_, _, _, _)
ScanSegments(segments, index, cur, acc) ==
    IF index >= Len(segments)
    THEN IF cur.some
         THEN Append(acc, AdBreak(cur.start, Len(segments), cur.duration))
         ELSE acc
    ELSE LET r == ScanTags(segments[index + 1].unknown_tags, 1, index, cur, acc)
         IN ScanSegments(segments, index + 1, r.current_break, r.ad_breaks)

detect_ad_breaks(segments) == ScanSegments(segments, 0, NoCurrentBreak, <<>>)

(***************************************************************************)
(* ad/interleaver.rs                                                       *)
(***************************************************************************)
AdSegment(name, d) == [uri |-> name, duration |-> d]

NoPdt == [some |-> FALSE, val |-> 0]
NoDateRange == [some |-> FALSE, val |-> <<>>]

\* m3u8_rs::MediaSegment with the fields the stitcher reads or writes; a
\* program_date_time is a count of milliseconds since 2026-01-01T00:00:00Z
MediaSegment(uri, d, disc, tags, title) ==
    [uri |-> uri, duration |-> d, discontinuity |-> disc, unknown_tags |-> tags,
     title |-> title, program_date_time |-> NoPdt, daterange |-> NoDateRange]

\* the stitcher URI {base_url}/stitch/{session_id}/ad/break-{b}-seg-{s}.ts
AdUri(break_idx, segment_idx) == <<"ad", break_idx, segment_idx>>

create_media_segment_from_ad(ad_segment, break_idx, segment_idx) ==
    MediaSegment(AdUri(break_idx, segment_idx), ad_segment.duration, FALSE, <<>>,
                 <<"Ad Break", break_idx + 1>>)

\* `while segment_index < limit && segment_index < len { push; segment_index += 1 }`
CopyUntil(original, segment_index, limit) ==
    LET stop == IF limit < Len(original) THEN limit ELSE Len(original)
    IN IF segment_index < stop
       THEN [pushed |-> SubSeq(original, segment_index + 1, stop), segment_index |-> stop]
       ELSE [pushed |-> <<>>, segment_index |-> segment_index]

\* AdRun with the discontinuity set on every ad segment
AdRun_AllDiscontinuous(ad_segments, break_idx) ==
    [j \in 1..Len(ad_segments) |->
        [create_media_segment_from_ad(ad_segments[j], break_idx, j - 1)
            EXCEPT !.discontinuity = TRUE]]

\* the ad segments of one break, the first one carrying the discontinuity
AdRun(ad_segments, break_idx) ==
    [j \in 1..Len(ad_segments) |->
        LET m == create_media_segment_from_ad(ad_segments[j], break_idx, j - 1)
        IN IF j = 1 THEN [m EXCEPT !.discontinuity = TRUE] ELSE m]

\* NextAfterRun without `segment_index += 1`: the flagged segment is copied again
NextAfterRun_NoAdvance(original, segment_index) ==
    IF segment_index < Len(original)
    THEN [pushed |-> <<[original[segment_index + 1] EXCEPT !.discontinuity = TRUE]>>,
          segment_index |-> segment_index]
    ELSE [pushed |-> <<>>, segment_index |-> segment_index]

\* the content segment that follows an ad run, flagged as a discontinuity
NextAfterRun(original, segment_index) ==
    IF segment_index < Len(original)
    THEN [pushed |-> <<[original[segment_index + 1] EXCEPT !.discontinuity = TRUE]>>,
          segment_index |-> segment_index + 1]
    ELSE [pushed |-> <<>>, segment_index |-> segment_index]

\* the body of `for (break_idx, ad_break) in ad_breaks.iter().enumerate()`
RECURSIVE InterleaveLoop(_, _, _, _, _, _)
InterleaveLoop(original, breaks, ads, b, segment_index, new_segments) ==
    IF b > Len(breaks)
    THEN new_segments \o CopyUntil(original, segment_index, Len(original)).pushed
    ELSE LET before == CopyUntil(original, segment_index, breaks[b].start_index)
             ad_segments == ads[b]
         IN IF ad_segments # <<>>
            THEN LET after == NextAfterRun(original, breaks[b].end_index)
                 IN InterleaveLoop(original, breaks, ads, b + 1, after.segment_index,
                                   new_segments \o before.pushed
                                       \o AdRun(ad_segments, b - 1) \o after.pushed)
            ELSE InterleaveLoop(original, breaks, ads, b + 1, before.segment_index,
                                new_segments \o before.pushed)

interleave_ads(segments, breaks, ads) ==
    IF breaks = <<>> THEN segments
    ELSE IF Len(breaks) # Len(ads) THEN segments
    ELSE InterleaveLoop(segments, breaks, ads, 1, 0, <<>>)

(***************************************************************************)
(* server/url_validation.rs                                                *)
(*                                                                         *)
(* A URL is held in the form url::Url::parse gives it: whether it parsed,  *)
(* its scheme, and its host as url::Host (an IPv4 address as four octets,  *)
(* an IPv6 address as eight 16-bit segments, or a domain name).            *)
(***************************************************************************)
ZeroV4 == <<0, 0, 0, 0>>
ZeroV6 == <<0, 0, 0, 0, 0, 0, 0, 0>>

UrlV4(scheme, ip) == [parse_ok |-> TRUE, scheme |-> scheme, host |-> "ipv4", v4 |-> ip, v6 |-> ZeroV6]
UrlV6(scheme, ip) == [parse_ok |-> TRUE, scheme |-> scheme, host |-> "ipv6", v4 |-> ZeroV4, v6 |-> ip]
UrlDomain(scheme) == [parse_ok |-> TRUE, scheme |-> scheme, host |-> "domain", v4 |-> ZeroV4, v6 |-> ZeroV6]
UrlNoHost(scheme) == [parse_ok |-> TRUE, scheme |-> scheme, host |-> "none", v4 |-> ZeroV4, v6 |-> ZeroV6]
UrlUnparsable == [parse_ok |-> FALSE, scheme |-> "", host |-> "none", v4 |-> ZeroV4, v6 |-> ZeroV6]

\* x & mask for a mask that clears the low bits below `low` (a power of two)
ClearLow(x, low) == x - (x % low)

\* is_blocked_ipv4 with the RFC 1918 range written as 172.16 ..= 172.32
is_blocked_ipv4_Wide172(ip) ==
    LET a == ip[1]
        b == ip[2]
        c == ip[3]
    IN \/ a = 0
       \/ a = 10
       \/ (a = 100 /\ ClearLow(b, 64) = 64)
       \/ a = 127
       \/ (a = 169 /\ b = 254)
       \/ (a = 172 /\ b \in 16..32)
       \/ (a = 192 /\ b = 0 /\ c = 0)
       \/ (a = 192 /\ b = 0 /\ c = 2)
       \/ (a = 192 /\ b = 168)
       \/ (a = 198 /\ ClearLow(b, 2) = 18)
       \/ (a = 198 /\ b = 51 /\ c = 100)
       \/ (a = 203 /\ b = 0 /\ c = 113)
       \/ a >= 240

is_blocked_ipv4(ip) ==
    LET a == ip[1]
        b == ip[2]
        c == ip[3]
    IN \/ a = 0
       \/ a = 10
       \/ (a = 100 /\ ClearLow(b, 64) = 64)
       \/ a = 127
       \/ (a = 169 /\ b = 254)
       \/ (a = 172 /\ b \in 16..31)
       \/ (a = 192 /\ b = 0 /\ c = 0)
       \/ (a = 192 /\ b = 0 /\ c = 2)
       \/ (a = 192 /\ b = 168)
       \/ (a = 198 /\ ClearLow(b, 2) = 18)
       \/ (a = 198 /\ b = 51 /\ c = 100)
       \/ (a = 203 /\ b = 0 /\ c = 113)
       \/ a >= 240

\* 0xfe80 = 65152, 0xfc00 = 64512, 0x2001 = 8193, 0x0db8 = 3512
is_blocked_ipv6(s) ==
    \/ s = ZeroV6
    \/ s = <<0, 0, 0, 0, 0, 0, 0, 1>>
    \/ ClearLow(s[1], 64) = 65152
    \/ ClearLow(s[1], 512) = 64512
    \/ (s[1] = 8193 /\ s[2] = 3512)

\* bytes 12..15 of the address
LowV4(s) == <<s[7] \div 256, s[7] % 256, s[8] \div 256, s[8] % 256>>

NoneV4 == [some |-> FALSE, val |-> ZeroV4]

\* 0xffff = 65535, 0x0064 = 100, 0xff9b = 65435
extract_embedded_ipv4(s) ==
    IF (\A i \in 1..5 : s[i] = 0) /\ s[6] = 65535 THEN Some(LowV4(s))
    ELSE IF (\A i \in 1..6 : s[i] = 0) /\ (s[7] # 0 \/ s[8] > 1) THEN Some(LowV4(s))
    ELSE IF s[1] = 100 /\ s[2] = 65435 THEN Some(LowV4(s))
    ELSE NoneV4

OkResult == [ok |-> TRUE, error |-> "", message |-> ""]
Err(kind, msg) == [ok |-> FALSE, error |-> kind, message |-> msg]

validate_origin_url(u) ==
    IF ~u.parse_ok THEN Err("InvalidOrigin", "Invalid URL")
    ELSE IF u.scheme \notin {"http", "https"} THEN Err("InvalidOrigin", "Scheme not allowed")
    ELSE IF u.host = "none" THEN Err("InvalidOrigin", "No host in URL")
    ELSE IF u.host = "ipv4"
    THEN IF is_blocked_ipv4(u.v4)
         THEN Err("InvalidOrigin", "Origin address is not allowed")
         ELSE OkResult
    ELSE IF u.host = "ipv6"
    THEN IF is_blocked_ipv6(u.v6)
         THEN Err("InvalidOrigin", "Origin address is not allowed")
         ELSE LET embedded_v4 == extract_embedded_ipv4(u.v6)
              IN IF embedded_v4.some /\ is_blocked_ipv4(embedded_v4.val)
                 THEN Err("InvalidOrigin", "Origin address is not allowed")
                 ELSE OkResult
    ELSE OkResult

(***************************************************************************)
(* error.rs: RitcherError::into_response                                   *)
(***************************************************************************)
into_response(error) ==
    CASE error = "OriginFetchError" -> 502
      [] error = "PlaylistParseError" -> 422
      [] error = "MpdParseError" -> 422
      [] error = "PlaylistModifyError" -> 500
      [] error = "InvalidSessionId" -> 400
      [] error = "ConfigError" -> 500
      [] error = "ConversionError" -> 500
      [] error = "InvalidOrigin" -> 400
      [] error = "InternalError" -> 500

(***************************************************************************)
(* server/handlers: how each handler picks the origin it fetches from.     *)
(* The result is the error returned before any fetch, or the origin.       *)
(***************************************************************************)
Resolved(u) == [ok |-> TRUE, error |-> "", origin |-> u]
Refused(kind) == [ok |-> FALSE, error |-> kind, origin |-> UrlUnparsable]

\* playlist_origin without the call of validate_origin_url
playlist_origin_Unvalidated(has_origin, origin, config_origin_url) ==
    IF has_origin THEN Resolved(origin) ELSE Resolved(config_origin_url)

\* playlist.rs: `if let Some(origin) = params.get("origin") { validate_origin_url(origin)?; .. }`
playlist_origin(has_origin, origin, config_origin_url) ==
    IF has_origin
    THEN LET v == validate_origin_url(origin)
         IN IF v.ok THEN Resolved(origin) ELSE Refused(v.error)
    ELSE Resolved(config_origin_url)

\* manifest.rs: `params.get("origin").map(..).unwrap_or(&state.config.origin_url)`
manifest_origin(has_origin, origin, config_origin_url) ==
    IF has_origin THEN Resolved(origin) ELSE Resolved(config_origin_url)

\* segment.rs: `params.get("origin").map(..).unwrap_or(&state.config.origin_url)`
segment_origin(has_origin, origin, config_origin_url) ==
    IF has_origin THEN Resolved(origin) ELSE Resolved(config_origin_url)

Get(origin, path) == [origin |-> origin, path |-> path]

\* reqwest sends a request only to a URL that parses, is http(s) and has a host;
\* for any other string `send()` fails before anything goes on the wire
Sendable(u) == u.parse_ok /\ u.scheme \in {"http", "https"} /\ u.host # "none"
Response(status, error) == [status |-> status, error |-> error]
ErrorResponse(error) == Response(into_response(error), error)

\* the retry loop of serve_segment and serve_ad: the GETs that went out, the
\* outcome of each attempt with the sleeps between them, and the answer.
\* `outcomes[attempt]` is what the upstream does with that attempt: no connection
\* ("send_error"), a non-2xx status ("status_error"), a 2xx status whose body
\* cannot be read ("body_error": `response.bytes().await?` returns the error), or
\* a 2xx status with a body ("ok").  A URL reqwest cannot send fails in `send()`.
max_attempts == 2

Backoff == "sleep_500ms"
BytesOf(attempt) == <<"bytes", attempt>>
NoBytes == <<>>

\* the retry loop without the `return` of the success arm
RECURSIVE SegmentAttempts_NoReturn(_, _, _, _, _, _)
SegmentAttempts_NoReturn(get, sendable, outcomes, attempt, issued, log) ==
    IF attempt > max_attempts
    THEN [upstream |-> issued, log |-> log, bytes |-> NoBytes,
          resp |-> IF log[Len(log)] = "ok" THEN Response(200, "")
                   ELSE ErrorResponse("OriginFetchError")]
    ELSE LET outcome == IF sendable THEN outcomes[attempt] ELSE "send_error"
             sent == IF sendable THEN Append(issued, get) ELSE issued
             logged == Append(log, outcome)
         IN SegmentAttempts_NoReturn(get, sendable, outcomes, attempt + 1, sent,
                IF attempt < max_attempts THEN Append(logged, Backoff) ELSE logged)

RECURSIVE SegmentAttempts(_, _, _, _, _, _)
SegmentAttempts(get, sendable, outcomes, attempt, issued, log) ==
    IF attempt > max_attempts
    THEN [upstream |-> issued, log |-> log, bytes |-> NoBytes,
          resp |-> ErrorResponse("OriginFetchError")]
    ELSE LET outcome == IF sendable THEN outcomes[attempt] ELSE "send_error"
             sent == IF sendable THEN Append(issued, get) ELSE issued
             logged == Append(log, outcome)
         IN IF outcome = "ok"
            THEN [upstream |-> sent, log |-> logged, bytes |-> BytesOf(attempt),
                  resp |-> Response(200, "")]
            ELSE IF outcome = "body_error"
            THEN [upstream |-> sent, log |-> logged, bytes |-> NoBytes,
                  resp |-> ErrorResponse("OriginFetchError")]
            ELSE SegmentAttempts(get, sendable, outcomes, attempt + 1, sent,
                     IF attempt < max_attempts THEN Append(logged, Backoff) ELSE logged)

(***************************************************************************)
(* ad/tracking.rs                                                          *)
(*                                                                         *)
(* progress and prev_progress are quotients of small integers; they are    *)
(* kept as fractions <<numerator, denominator>> and compared with the      *)
(* thresholds 1/4, 1/2 and 3/4 by cross-multiplication.  The f64 quotient  *)
(* compares the same way for every segment count below 2^53.               *)
(***************************************************************************)
TrackingEvent(name) == [event |-> name, url |-> <<"beacon", name>>]

AtLeast(p, num, den) == p[1] * den >= num * p[2]
Below(p, num, den) == p[1] * den < num * p[2]

\* events_for_segment with the thresholds crossed by `>` instead of `>=`
events_for_segment_Strict(segment_index, total, events) ==
    IF total = 0 THEN <<>>
    ELSE LET progress == IF total = 1 THEN <<1, 1>> ELSE <<segment_index, total - 1>>
             prev_progress == IF segment_index = 0 \/ total = 1
                              THEN <<-1, 1>>
                              ELSE <<segment_index - 1, total - 1>>
             should_fire(e) ==
                 CASE e.event = "start" -> segment_index = 0
                   [] e.event = "firstQuartile" ->
                          ~Below(progress, 1, 4) /\ progress[1] * 4 # progress[2]
                              /\ Below(prev_progress, 1, 4)
                   [] e.event = "midpoint" ->
                          AtLeast(progress, 1, 2) /\ Below(prev_progress, 1, 2)
                   [] e.event = "thirdQuartile" ->
                          AtLeast(progress, 3, 4) /\ Below(prev_progress, 3, 4)
                   [] e.event = "complete" -> segment_index = total - 1
                   [] OTHER -> FALSE
         IN SelectSeq(events, should_fire)

events_for_segment(segment_index, total, events) ==
    IF total = 0 THEN <<>>
    ELSE LET progress == IF total = 1 THEN <<1, 1>> ELSE <<segment_index, total - 1>>
             prev_progress == IF segment_index = 0 \/ total = 1
                              THEN <<-1, 1>>
                              ELSE <<segment_index - 1, total - 1>>
             should_fire(e) ==
                 CASE e.event = "start" -> segment_index = 0
                   [] e.event = "firstQuartile" ->
                          AtLeast(progress, 1, 4) /\ Below(prev_progress, 1, 4)
                   [] e.event = "midpoint" ->
                          AtLeast(progress, 1, 2) /\ Below(prev_progress, 1, 2)
                   [] e.event = "thirdQuartile" ->
                          AtLeast(progress, 3, 4) /\ Below(prev_progress, 3, 4)
                   [] e.event = "complete" -> segment_index = total - 1
                   [] OTHER -> FALSE
         IN SelectSeq(events, should_fire)

(***************************************************************************)
(* ad/vast_provider.rs: fetch_vast                                         *)
(*                                                                         *)
(* A call is a frame [url, depth, fetched, ads, creatives]: `ads` are the  *)
(* ads of the parsed response still to be walked, `creatives` the vector   *)
(* built so far.  A creative records the depth of the call that found it,  *)
(* which is the number of wrapper hops that lead to it.                    *)
(***************************************************************************)
max_wrapper_depth == 5

InLineAd(media) == [kind |-> "InLine", media |-> media, ad_tag_uri |-> ""]
WrapperAd(uri) == [kind |-> "Wrapper", media |-> "", ad_tag_uri |-> uri]

Creative(media, depth) == [url |-> media, hops |-> depth]

Frame(u, depth) ==
    [url |-> u, depth |-> depth, fetched |-> FALSE, ads |-> <<>>, creatives |-> <<>>]

NoCreatives == [some |-> FALSE, val |-> <<>>]

\* the depth check off by one: `depth > max_wrapper_depth + 1`
DepthExceeded_OffByOne(depth) == depth > max_wrapper_depth + 1

\* `if depth > self.max_wrapper_depth { return None; }`
DepthExceeded(depth) == depth > max_wrapper_depth

\* the caller's loop takes the callee's result: `if let Some(mut wrapped) = .. { append }`
\* and moves on to its next ad; the outermost call's result is the final one
ReturnFrom(stack, result) ==
    LET rest == SubSeq(stack, 1, Len(stack) - 1)
    IN IF rest = <<>> THEN <<>>
       ELSE LET caller == rest[Len(rest)]
            IN [rest EXCEPT ![Len(rest)] =
                   [caller EXCEPT
                       !.ads = Tail(caller.ads),
                       !.creatives = IF result.some
                                     THEN caller.creatives \o result.val
                                     ELSE caller.creatives]]

(***************************************************************************)
(* hls/interstitial.rs: ensure_program_date_time, inject_interstitials     *)
(***************************************************************************)
\* `(seg.duration * 1000.0) as i64` for the finite and NaN durations of segments
DurationMs(d) == IF d.nan THEN 0 ELSE d.v * 1000

\* the synthetic PDT of segment k (1-based): the base time plus the durations before it
RECURSIVE SyntheticPdt(_, _)
SyntheticPdt(segments, k) ==
    IF k = 1 THEN 0
    ELSE SyntheticPdt(segments, k - 1) + DurationMs(segments[k - 1].duration)

ensure_program_date_time(segments) ==
    IF \E k \in 1..Len(segments) : segments[k].program_date_time.some
    THEN segments
    ELSE [k \in 1..Len(segments) |->
             [segments[k] EXCEPT !.program_date_time = Some(SyntheticPdt(segments, k))]]

\* the sum of DurationMs over segments[from .. to - 1] (0-based indices)
RECURSIVE OffsetMs(_, _, _)
OffsetMs(segments, from, to) ==
    IF from >= to THEN 0
    ELSE DurationMs(segments[from + 1].duration) + OffsetMs(segments, from + 1, to)

compute_pdt_at(segments, target_index) ==
    LET anchors == {i \in 0..target_index :
                       i < Len(segments) /\ segments[i + 1].program_date_time.some}
    IN IF anchors = {} THEN NoPdt
       ELSE LET anchor_index == CHOOSE i \in anchors : \A j \in anchors : j <= i
            IN Some(segments[anchor_index + 1].program_date_time.val
                        + OffsetMs(segments, anchor_index, target_index))

InterstitialClass == "com.apple.hls.interstitial"

DateRange(break_idx, start_date, duration) ==
    [id |-> <<"ad-break", break_idx>>, class |-> InterstitialClass,
     start_date |-> start_date, duration |-> duration,
     x_asset_list |-> <<"asset-list", break_idx, duration>>,
     x_resume_offset |-> "0", x_restrict |-> "SKIP,JUMP"]

\* is_cue_tag that knows only the X- prefixed names
is_cue_tag_PrefixedOnly(tag_name) ==
    tag_name \in {"X-CUE-OUT", "X-CUE-OUT-CONT", "X-CUE-IN"}

is_cue_tag(tag_name) ==
    tag_name \in {"X-CUE-OUT", "CUE-OUT", "X-CUE-OUT-CONT", "CUE-OUT-CONT", "X-CUE-IN", "CUE-IN"}

remove_cue_tags(segments) ==
    [k \in 1..Len(segments) |->
        [segments[k] EXCEPT !.unknown_tags = SelectSeq(@, LAMBDA t : ~is_cue_tag(t.tag))]]

\* the loop over the breaks of inject_interstitials, break b (1-based) onwards
RECURSIVE InjectLoop(_, _, _)
InjectLoop(segments, breaks, b) ==
    IF b > Len(breaks) THEN segments
    ELSE LET start_index == breaks[b].start_index
             start_date == compute_pdt_at(segments, start_index)
         IN IF start_index >= Len(segments) \/ ~start_date.some
            THEN InjectLoop(segments, breaks, b + 1)
            ELSE InjectLoop(
                     [segments EXCEPT ![start_index + 1].daterange =
                         Some(DateRange(b - 1, start_date.val, breaks[b].duration))],
                     breaks, b + 1)

inject_interstitials(segments, breaks) == remove_cue_tags(InjectLoop(segments, breaks, 1))

(***************************************************************************)
(* session/manager.rs: SessionManager, Memory backend                      *)
(*                                                                         *)
(* The DashMap is a function from the ids present to their Session.  Times *)
(* are whole clock readings; SystemTime is not monotonic, so a reading may *)
(* lie before an earlier one.                                              *)
(***************************************************************************)
Session(session_id, origin_url, at) ==
    [session_id |-> session_id, origin_url |-> origin_url,
     created_at |-> at, last_accessed |-> at]

NoSession == [some |-> FALSE, val |-> <<>>]

\* `sessions.entry(id).or_insert_with(|| Session { .., created_at: now, last_accessed: now })`
get_or_create(map, session_id, origin_url, at) ==
    IF session_id \in DOMAIN map THEN map
    ELSE [k \in DOMAIN map \cup {session_id} |->
             IF k = session_id THEN Session(session_id, origin_url, at) ELSE map[k]]

\* `if let Some(mut session) = sessions.get_mut(id) { session.last_accessed = now }`
touch(map, session_id, at) ==
    IF session_id \in DOMAIN map
    THEN [map EXCEPT ![session_id].last_accessed = at]
    ELSE map

\* `sessions.get(session_id).map(|s| s.clone())`
get(map, session_id) ==
    IF session_id \in DOMAIN map THEN Some(map[session_id]) ELSE NoSession

\* the retain predicate with `elapsed <= self.ttl`
cleanup_expired_KeepsAtTtl(map, at, ttl) ==
    LET keep(k) == IF at >= map[k].last_accessed
                   THEN at - map[k].last_accessed <= ttl
                   ELSE TRUE
    IN [k \in {j \in DOMAIN map : keep(j)} |-> map[k]]

\* `sessions.retain(|_, s| if let Ok(elapsed) = now.duration_since(s.last_accessed)
\*                          { elapsed < self.ttl } else { true })`
cleanup_expired(map, at, ttl) ==
    LET keep(k) == IF at >= map[k].last_accessed
                   THEN at - map[k].last_accessed < ttl
                   ELSE TRUE
    IN [k \in {j \in DOMAIN map : keep(j)} |-> map[k]]

session_count(map) == Cardinality(DOMAIN map)

\* `sessions.remove(session_id)`
remove(map, session_id) == [k \in DOMAIN map \ {session_id} |-> map[k]]

(***************************************************************************)
(* ad/slate.rs and ad/vast_provider.rs: get_ad_segments, the creative      *)
(* cache and the slate fallback                                            *)
(*                                                                         *)
(* A cache key "{session_id}:{ad_name}" is the pair <<session_id, ad_name>>*)
(* and an ad name "break-{b}-seg-{i}.ts" the tuple <<"break", b, "seg", i>>.*)
(***************************************************************************)
SlateProvider(segment_duration) == [segment_duration |-> segment_duration]
NoSlate == [some |-> FALSE, val |-> SlateProvider(F32(1))]

\* `(duration / self.segment_duration).ceil() as usize`: the f32 quotient, rounded
\* up, cast with saturation (NaN -> 0, below 0 -> 0, +infinity -> usize::MAX)
CeilQuotientAsUsize(duration, segment_duration) ==
    LET d == duration
        sd == segment_duration
        Zero == [max |-> FALSE, n |-> 0]
        UsizeMax == [max |-> TRUE, n |-> 0]
    IN IF d.nan \/ sd.nan THEN Zero
       ELSE IF d.inf THEN (IF sd.inf \/ sd.v < 0 THEN Zero ELSE UsizeMax)
       ELSE IF sd.inf THEN Zero
       ELSE IF sd.v = 0 THEN (IF d.v > 0 THEN UsizeMax ELSE Zero)
       ELSE LET num == IF sd.v > 0 THEN d.v ELSE 0 - d.v
                den == IF sd.v > 0 THEN sd.v ELSE 0 - sd.v
                q == 0 - ((0 - num) \div den)
            IN [max |-> FALSE, n |-> IF q < 0 THEN 0 ELSE q]

SlateName(i) == <<"slate-seg", i>>

\* SlateProvider::fill_duration; collecting usize::MAX segments into a Vec panics
\* with a capacity overflow
fill_duration(slate_provider, duration) ==
    LET num_segments == CeilQuotientAsUsize(duration, slate_provider.segment_duration)
        at_least_one == IF num_segments.n < 1 THEN 1 ELSE num_segments.n
    IN IF num_segments.max
       THEN [panic |-> TRUE, segments |-> <<>>]
       ELSE [panic |-> FALSE,
             segments |-> [i \in 1..at_least_one |->
                              AdSegment(SlateName(i - 1), slate_provider.segment_duration)]]

ResolvedCreative(creative_url, duration, is_hls) ==
    [url |-> creative_url, duration |-> duration, is_hls |-> is_hls]

AdName(break_idx, seg_idx) == <<"break", break_idx, "seg", seg_idx>>

cache_key(session_id, ad_name) == <<session_id, ad_name>>

\* `self.ad_cache.insert(key, value)`
CacheInsert(cache, key, value) ==
    [k \in DOMAIN cache \cup {key} |-> IF k = key THEN value ELSE cache[k]]

\* the loop over the creatives of get_ad_segments: one insert per creative under
\* "break-0-seg-{seg_idx}.ts"
RECURSIVE CacheCreatives(_, _, _, _)
CacheCreatives(cache, session_id, creatives, seg_idx) ==
    IF seg_idx >= Len(creatives) THEN cache
    ELSE LET c == creatives[seg_idx + 1]
         IN CacheCreatives(
                CacheInsert(cache, cache_key(session_id, AdName(0, seg_idx)),
                            ResolvedCreative(c.url, c.duration, c.is_hls)),
                session_id, creatives, seg_idx + 1)

\* VastAdProvider::get_ad_segments, given what fetch_vast returned
get_ad_segments(cache, slate_opt, duration, session_id, fetched) ==
    IF fetched.some /\ fetched.val # <<>>
    THEN [cache |-> CacheCreatives(cache, session_id, fetched.val, 0),
          panic |-> FALSE,
          segments |-> [i \in 1..Len(fetched.val) |->
                           AdSegment(AdName(0, i - 1), fetched.val[i].duration)]]
    ELSE IF slate_opt.some
    THEN [cache |-> cache] @@ fill_duration(slate_opt.val, duration)
    ELSE [cache |-> cache, panic |-> FALSE, segments |-> <<>>]

\* the hard cap on cache entries (10,000 in the specification, scaled down)
cache_hard_cap == 3

\* cleanup_cache, first part: drop the entries that exceed the TTL
CacheUnexpired(cache, inserted_at, at, ttl) ==
    {k \in DOMAIN cache : at - inserted_at[k] <= ttl}

\* cleanup_cache, second part: the sets of keys that may remain when the oldest
\* entries are evicted down to the hard cap
CacheSurvivors(keys, inserted_at) ==
    IF Cardinality(keys) <= cache_hard_cap THEN {keys}
    ELSE {kept \in SUBSET keys :
             /\ Cardinality(kept) = cache_hard_cap
             /\ \A k \in kept, e \in keys \ kept : inserted_at[e] <= inserted_at[k]}

NoAdCall == [op |-> "none", session_id |-> "", duration |-> F32(0),
             fetched |-> NoCreatives]
NoAdOut == [panic |-> FALSE, segments |-> <<>>, status |-> 0]

(***************************************************************************)
(* Values of the variables of a part that a specification does not use.    *)
(***************************************************************************)
NoVerdict == [ok |-> FALSE, error |-> "", message |-> "not validated"]
NoRequest == [handler |-> "none", has_origin |-> FALSE, origin |-> UrlUnparsable, path |-> ""]
NoResponse == Response(0, "")

HlsIdle ==
    /\ hpc = "idle"
    /\ playlist = <<>>
    /\ ad_breaks = <<>>
    /\ ad_segments_per_break = <<>>
    /\ out_segments = <<>>
    /\ stitching_mode = "Ssai"

UrlIdle == upc = "idle" /\ url = UrlUnparsable /\ verdict = NoVerdict

SrvIdle ==
    /\ config_origin = UrlUnparsable
    /\ req = NoRequest
    /\ upstream = <<>>
    /\ resp = NoResponse
    /\ attempt_log = <<>>
    /\ proxied_bytes = NoBytes
    /\ beacons = <<>>
    /\ ad_served = {}

EventNames == {"start", "firstQuartile", "midpoint", "thirdQuartile", "complete"}
NothingFired == [e \in EventNames |-> 0]

TrkIdle ==
    /\ total_segments = 0
    /\ tracking_events = <<>>
    /\ next_segment = 0
    /\ last_fired = <<>>
    /\ fired = NothingFired

VastIdle == vpc = "idle" /\ vstack = <<>> /\ vresult = NoCreatives /\ vguard = FALSE

SesIdle ==
    /\ sessions = <<>>
    /\ now = 0
    /\ session_ttl = 0
    /\ expired_seen = {}
    /\ handled = {}

CoreIdle == HlsIdle /\ UrlIdle /\ SrvIdle /\ TrkIdle /\ VastIdle
AdsIdle ==
    /\ slate = NoSlate
    /\ ad_cache = <<>>
    /\ ad_cache_inserted_at = <<>>
    /\ ad_call = NoAdCall
    /\ ad_out = NoAdOut

DashIdle ==
    /\ dpc = "idle"
    /\ mpd = <<>>
    /\ dash_ad_breaks = <<>>
    /\ dash_ad_segments = <<>>
    /\ mpd_out = <<>>

RwIdle ==
    /\ wpc = "idle"
    /\ doc_in = <<>>
    /\ doc_out = <<>>
    /\ doc_again = <<>>
    /\ track_type = "none"

NoSourceUrl == [some |-> FALSE, val |-> <<>>]
NoResolved == [some |-> FALSE, session_id |-> "", ad_name |-> <<>>, url |-> NoSourceUrl]

RsIdle ==
    /\ ad_provider = "none"
    /\ emitted = {}
    /\ resolved = NoResolved

GcIdle ==
    /\ backend = "none"
    /\ callers = <<>>

MoreIdle == RwIdle /\ RsIdle /\ GcIdle

LaterIdle == SesIdle /\ AdsIdle /\ DashIdle /\ MoreIdle

(***************************************************************************)
(* Inputs of the HLS pipeline.                                             *)
(***************************************************************************)
\* the unknown-tag lists a segment of the origin playlist may carry
SegTagLists ==
    { <<>>,
      <<ExtTag("X-CUE-OUT", "30")>>,
      <<ExtTagBare("X-CUE-IN")>>,
      <<ExtTag("X-CUE-OUT-CONT", "10/30")>>,
      <<ExtTagBare("CUE-IN"), ExtTag("CUE-OUT", "DURATION=60")>>,
      <<ExtTag("X-CUE-OUT", " 15 "), ExtTagBare("X-CUE-IN")>>,
      <<ExtTagBare("X-CUE-IN"), ExtTag("X-CUE-OUT", "60"), ExtTagBare("X-CUE-IN")>>,
      <<ExtTag("X-CUE-OUT", "abc")>>,
      <<ExtTag("X-CUE-OUT", "inf")>>,
      <<ExtTag("X-CUE-OUT", "NaN")>>,
      <<ExtTag("CUE-OUT", "DURATION=-5")>>,
      <<ExtTagBare("X-CUE-OUT"), ExtTag("X-CUSTOM", "abc")>> }

ContentUri(i) == <<"seg", i>>

\* a parsed media playlist whose i-th segment carries tag list tl[i]
PlaylistOf(tl) ==
    [i \in 1..Len(tl) |-> MediaSegment(ContentUri(i - 1), F32(10), FALSE, tl[i], <<>>)]

AdLists == {[j \in 1..n |-> AdSegment(<<"provider", j - 1>>, F32(15))] : n \in 0..MaxAds}

\* which segments of the origin playlist carry EXT-X-PROGRAM-DATE-TIME
PdtPatterns == {"none", "every", "first", "last"}

FirstPdt == 500000

WithPdt(segments, pattern) ==
    [k \in 1..Len(segments) |->
        IF \/ pattern = "every"
           \/ (pattern = "first" /\ k = 1)
           \/ (pattern = "last" /\ k = Len(segments))
        THEN [segments[k] EXCEPT !.program_date_time = Some(FirstPdt + 10000 * (k - 1))]
        ELSE segments[k]]

StitchingModes == {"Ssai", "Sgai"}

(***************************************************************************)
(* SpecHls: process_playlist on a media playlist, one step per call.  The  *)
(* SSAI branch does not read program_date_time, so the playlists of that   *)
(* mode carry none.                                                        *)
(***************************************************************************)
InitHls ==
    /\ hpc = "parsed"
    /\ stitching_mode \in StitchingModes
    /\ \E tl \in SeqsUpTo(SegTagLists, MaxSegs) :
           \E pattern \in IF stitching_mode = "Sgai" THEN PdtPatterns ELSE {"none"} :
               playlist = WithPdt(PlaylistOf(tl), pattern)
    /\ ad_breaks = <<>>
    /\ ad_segments_per_break = <<>>
    /\ out_segments = <<>>
    /\ UrlIdle /\ SrvIdle /\ TrkIdle /\ VastIdle /\ LaterIdle

DetectAdBreaks ==
    /\ hpc = "parsed"
    /\ ad_breaks' = detect_ad_breaks(playlist)
    /\ hpc' = "detected"
    /\ UNCHANGED <<playlist, ad_segments_per_break, out_segments, stitching_mode>>
    /\ UNCHANGED <<urlVars, srvVars, trkVars, vastVars, laterVars>>

GetAdSegments ==
    /\ hpc = "detected"
    /\ stitching_mode = "Ssai"
    /\ ad_breaks # <<>>
    /\ \E ads \in SeqsOfLen(AdLists, Len(ad_breaks)) : ad_segments_per_break' = ads
    /\ hpc' = "provided"
    /\ UNCHANGED <<playlist, ad_breaks, out_segments, stitching_mode>>
    /\ UNCHANGED <<urlVars, srvVars, trkVars, vastVars, laterVars>>

InterleaveAds ==
    /\ hpc = "provided"
    /\ out_segments' = interleave_ads(playlist, ad_breaks, ad_segments_per_break)
    /\ hpc' = "interleaved"
    /\ UNCHANGED <<playlist, ad_breaks, ad_segments_per_break, stitching_mode>>
    /\ UNCHANGED <<urlVars, srvVars, trkVars, vastVars, laterVars>>

NoAdBreaks ==
    /\ hpc = "detected"
    /\ ad_breaks = <<>>
    /\ out_segments' = playlist
    /\ hpc' = "interleaved"
    /\ UNCHANGED <<playlist, ad_breaks, ad_segments_per_break, stitching_mode>>
    /\ UNCHANGED <<urlVars, srvVars, trkVars, vastVars, laterVars>>

\* StitchingMode::Sgai: ensure_program_date_time, then inject_interstitials
InjectInterstitials ==
    /\ hpc = "detected"
    /\ stitching_mode = "Sgai"
    /\ ad_breaks # <<>>
    /\ out_segments' = inject_interstitials(ensure_program_date_time(playlist), ad_breaks)
    /\ hpc' = "injected"
    /\ UNCHANGED <<playlist, ad_breaks, ad_segments_per_break, stitching_mode>>
    /\ UNCHANGED <<urlVars, srvVars, trkVars, vastVars, laterVars>>

NextHls ==
    \/ DetectAdBreaks
    \/ GetAdSegments
    \/ InterleaveAds
    \/ NoAdBreaks
    \/ InjectInterstitials

SpecHls == InitHls /\ [][NextHls]_vars

(***************************************************************************)
(* SpecSgai: ensure_program_date_time and inject_interstitials called on   *)
(* any playlist with any break list, also an empty one and one whose start *)
(* indices lie past the last segment.                                      *)
(***************************************************************************)
SgaiTagLists ==
    { <<>>,
      <<ExtTag("X-CUE-OUT", "30")>>,
      <<ExtTagBare("CUE-IN"), ExtTag("X-CUSTOM", "abc"), ExtTag("CUE-OUT", "DURATION=60")>>,
      <<ExtTag("X-CUE-OUT-CONT", "10/30"), ExtTagBare("X-CUE-IN")>>,
      <<ExtTag("X-CUE-OUT-CONTINUED", "1"), ExtTag("CUE-OUT-CONT", "10/30")>> }

AnyBreaks ==
    SeqsUpTo({AdBreak(start, start + 1, F32(30)) : start \in 0..(MaxSegs + 1)}, 2)

InitSgai ==
    /\ hpc = "sgai-input"
    /\ stitching_mode = "Sgai"
    /\ \E tl \in SeqsUpTo(SgaiTagLists, MaxSegs), pattern \in PdtPatterns :
           playlist = WithPdt(PlaylistOf(tl), pattern)
    /\ ad_breaks \in AnyBreaks
    /\ ad_segments_per_break = <<>>
    /\ out_segments = <<>>
    /\ UrlIdle /\ SrvIdle /\ TrkIdle /\ VastIdle /\ LaterIdle

EnsureProgramDateTime ==
    /\ hpc = "sgai-input"
    /\ out_segments' = ensure_program_date_time(playlist)
    /\ hpc' = "sgai-ensured"
    /\ UNCHANGED <<playlist, ad_breaks, ad_segments_per_break, stitching_mode>>
    /\ UNCHANGED <<urlVars, srvVars, trkVars, vastVars, laterVars>>

InjectAfterEnsure ==
    /\ hpc = "sgai-ensured"
    /\ out_segments' = inject_interstitials(out_segments, ad_breaks)
    /\ hpc' = "sgai-injected"
    /\ UNCHANGED <<playlist, ad_breaks, ad_segments_per_break, stitching_mode>>
    /\ UNCHANGED <<urlVars, srvVars, trkVars, vastVars, laterVars>>

InjectOnly ==
    /\ hpc = "sgai-input"
    /\ out_segments' = inject_interstitials(playlist, ad_breaks)
    /\ hpc' = "sgai-injected"
    /\ UNCHANGED <<playlist, ad_breaks, ad_segments_per_break, stitching_mode>>
    /\ UNCHANGED <<urlVars, srvVars, trkVars, vastVars, laterVars>>

NextSgai == EnsureProgramDateTime \/ InjectAfterEnsure \/ InjectOnly

SpecSgai == InitSgai /\ [][NextSgai]_vars

(***************************************************************************)
(* SpecUrl: validate_origin_url applied to one URL.                        *)
(***************************************************************************)
OctetsA == {0, 1, 9, 10, 11, 99, 100, 101, 126, 127, 128, 168, 169, 170, 171, 172, 173,
            191, 192, 193, 197, 198, 199, 202, 203, 204, 239, 240, 255}
OctetsB == {0, 1, 15, 16, 17, 18, 19, 20, 31, 32, 50, 51, 52, 63, 64, 127, 128, 167, 168,
            169, 253, 254, 255}
OctetsC == {0, 1, 2, 3, 99, 100, 101, 112, 113, 114, 255}
OctetsD == {0, 1, 255}

V4Inputs == {<<a, b, c, d>> : a \in OctetsA, b \in OctetsB, c \in OctetsC, d \in OctetsD}

\* the IPv4 addresses placed in the low 32 bits of an IPv6 literal
V4Embedded ==
    { <<0, 0, 0, 0>>, <<0, 0, 0, 1>>, <<0, 0, 0, 2>>, <<8, 8, 8, 8>>, <<10, 0, 0, 1>>,
      <<100, 63, 255, 255>>, <<100, 64, 0, 1>>, <<100, 128, 0, 0>>, <<127, 0, 0, 1>>,
      <<169, 254, 169, 254>>, <<172, 15, 255, 255>>, <<172, 16, 0, 1>>, <<172, 32, 0, 0>>,
      <<192, 0, 0, 1>>, <<192, 0, 2, 1>>, <<192, 0, 1, 1>>, <<192, 168, 1, 1>>,
      <<198, 18, 0, 1>>, <<198, 20, 0, 1>>, <<198, 51, 100, 1>>, <<203, 0, 113, 1>>,
      <<239, 255, 255, 255>>, <<240, 0, 0, 1>>, <<255, 255, 255, 255>>, <<93, 184, 216, 34>> }

\* first segments: 0, 64, fe7f, fe80, febf, fec0, fbff, fc00, fdff, fe00, 2001, 2002, 2606
V6First == {0, 100, 65151, 65152, 65215, 65216, 64511, 64512, 65023, 65024, 8193, 8194, 9734}
\* second segments: 0, ff9b, db8, db9
V6Second == {0, 65435, 3512, 3513}
\* sixth segments: 0, 1, ffff
V6Sixth == {0, 1, 65535}

V6Inputs ==
    {<<s1, s2, s3, 0, 0, s6, 256 * e[1] + e[2], 256 * e[3] + e[4]>> :
        s1 \in V6First, s2 \in V6Second, s3 \in {0, 1}, s6 \in V6Sixth, e \in V4Embedded}

UrlInputs ==
    {UrlV4("http", ip) : ip \in V4Inputs}
        \cup {UrlV4(sch, ip) : sch \in {"https", "ftp"}, ip \in V4Embedded}
        \cup {UrlV6(sch, ip) : sch \in {"http"}, ip \in V6Inputs}
        \cup {UrlDomain(sch) : sch \in {"http", "https", "ftp", "gopher"}}
        \cup {UrlNoHost("file"), UrlUnparsable}

InitUrl ==
    /\ upc = "input"
    /\ url \in UrlInputs
    /\ verdict = NoVerdict
    /\ HlsIdle /\ SrvIdle /\ TrkIdle /\ VastIdle /\ LaterIdle

Validate ==
    /\ upc = "input"
    /\ verdict' = validate_origin_url(url)
    /\ upc' = "validated"
    /\ UNCHANGED <<url, hlsVars, srvVars, trkVars, vastVars, laterVars>>

NextUrl == Validate

SpecUrl == InitUrl /\ [][NextUrl]_vars

(***************************************************************************)
(* SpecSrv: requests to the three handlers that take `?origin=`.  Each     *)
(* action is one request, answered; the upstream's behaviour is an input.  *)
(***************************************************************************)
\* https://cdn.example.com, 8.8.8.8, 127.0.0.1, 169.254.169.254, 10.0.0.1, [::1],
\* [::ffff:192.168.1.1], ftp://cdn.example.com, and a string that is no URL
ClientOrigins ==
    { UrlDomain("https"), UrlV4("http", <<8, 8, 8, 8>>), UrlV4("http", <<127, 0, 0, 1>>),
      UrlV4("http", <<169, 254, 169, 254>>), UrlV4("https", <<10, 0, 0, 1>>),
      UrlV6("http", <<0, 0, 0, 0, 0, 0, 0, 1>>),
      UrlV6("http", <<0, 0, 0, 0, 0, 65535, 49320, 257>>),
      UrlDomain("ftp"), UrlUnparsable }

\* the operator's origin: a public host, or a host on the operator's own network
ConfigOrigins == {UrlDomain("https"), UrlV4("http", <<10, 0, 0, 1>>)}

FetchOutcomes == {"send_error", "status_error", "unparsable", "ok"}
AttemptOutcomes == {"send_error", "status_error", "body_error", "ok"}
SegmentPaths == {"video/seg1.ts"}

\* what resolve_segment_url makes of the ad name: nothing, the creative's URL, or
\* a cached string that is no URL
AdUrls == { [some |-> FALSE, val |-> UrlUnparsable],
            [some |-> TRUE, val |-> UrlDomain("https")],
            [some |-> TRUE, val |-> UrlUnparsable] }

Request(handler, has_origin, origin, path) ==
    [handler |-> handler, has_origin |-> has_origin,
     origin |-> IF has_origin THEN origin ELSE UrlUnparsable, path |-> path]

\* the answer of the playlist and manifest handlers after their single GET
AfterFetch(outcome, parse_error) ==
    CASE outcome = "send_error" -> ErrorResponse("OriginFetchError")
      [] outcome = "status_error" -> ErrorResponse("OriginFetchError")
      [] outcome = "unparsable" -> ErrorResponse(parse_error)
      [] outcome = "ok" -> Response(200, "")

InitSrv ==
    /\ config_origin \in ConfigOrigins
    /\ req = NoRequest
    /\ upstream = <<>>
    /\ resp = NoResponse
    /\ attempt_log = <<>>
    /\ proxied_bytes = NoBytes
    /\ beacons = <<>>
    /\ ad_served = {}
    /\ HlsIdle /\ UrlIdle /\ TrkIdle /\ VastIdle /\ LaterIdle

ServePlaylist ==
    \E has_origin \in BOOLEAN, origin \in ClientOrigins, outcome \in FetchOutcomes :
        LET r == playlist_origin(has_origin, origin, config_origin)
        IN /\ req' = Request("playlist", has_origin, origin, "")
           /\ IF ~r.ok
              THEN upstream' = <<>> /\ resp' = ErrorResponse(r.error)
              ELSE IF ~Sendable(r.origin)
              THEN upstream' = <<>> /\ resp' = ErrorResponse("OriginFetchError")
              ELSE /\ upstream' = <<Get(r.origin, "")>>
                   /\ resp' = AfterFetch(outcome, "PlaylistParseError")
           /\ attempt_log' = <<>> /\ proxied_bytes' = NoBytes
           /\ UNCHANGED <<config_origin, beacons, ad_served, hlsVars, urlVars, trkVars, vastVars, laterVars>>

ServeManifest ==
    \E has_origin \in BOOLEAN, origin \in ClientOrigins, outcome \in FetchOutcomes :
        LET r == manifest_origin(has_origin, origin, config_origin)
        IN /\ req' = Request("manifest", has_origin, origin, "")
           /\ IF ~r.ok
              THEN upstream' = <<>> /\ resp' = ErrorResponse(r.error)
              ELSE IF ~Sendable(r.origin)
              THEN upstream' = <<>> /\ resp' = ErrorResponse("OriginFetchError")
              ELSE /\ upstream' = <<Get(r.origin, "")>>
                   /\ resp' = AfterFetch(outcome, "MpdParseError")
           /\ attempt_log' = <<>> /\ proxied_bytes' = NoBytes
           /\ UNCHANGED <<config_origin, beacons, ad_served, hlsVars, urlVars, trkVars, vastVars, laterVars>>

ServeSegment ==
    \E has_origin \in BOOLEAN, origin \in ClientOrigins, path \in SegmentPaths,
       outcomes \in [1..max_attempts -> AttemptOutcomes] :
        LET r == segment_origin(has_origin, origin, config_origin)
            a == SegmentAttempts(Get(r.origin, path), Sendable(r.origin), outcomes, 1, <<>>, <<>>)
        IN /\ req' = Request("segment", has_origin, origin, path)
           /\ upstream' = a.upstream
           /\ resp' = a.resp
           /\ attempt_log' = a.log
           /\ proxied_bytes' = a.bytes
           /\ UNCHANGED <<config_origin, beacons, ad_served, hlsVars, urlVars, trkVars, vastVars, laterVars>>

\* tracking.rs: fire_beacon appends to the beacons dispatched, fire_impressions
\* fires one "impression" beacon per URL
fire_beacon(dispatched, beacon_url, event_name) ==
    Append(dispatched, [event |-> event_name, url |-> beacon_url])

RECURSIVE fire_impressions(_, _)
fire_impressions(dispatched, impression_urls) ==
    IF impression_urls = <<>> THEN dispatched
    ELSE fire_impressions(fire_beacon(dispatched, Head(impression_urls), "impression"),
                          Tail(impression_urls))

\* the impression URLs of the VAST ad whose segments are requested
ImpressionUrls == <<"https://ads.example.com/imp1", "https://ads.example.com/imp2">>

AdSegmentNames == {"break-0-seg-0.ts", "break-0-seg-1.ts"}

\* serve_ad: the provider's resolve_segment_url resolves the ad name to a URL, or
\* the request ends with InternalError before any attempt; the bytes are fetched
\* and returned.  The handler calls neither resolve_segment_with_tracking nor
\* fire_impressions nor fire_beacon: it dispatches no beacon.
ServeAd ==
    \E ad_name \in AdSegmentNames, ad_url \in AdUrls,
       outcomes \in [1..max_attempts -> AttemptOutcomes] :
        LET a == SegmentAttempts(Get(ad_url.val, ""), Sendable(ad_url.val), outcomes, 1, <<>>, <<>>)
        IN /\ req' = Request("ad", FALSE, UrlUnparsable, ad_name)
           /\ IF ~ad_url.some
              THEN /\ upstream' = <<>>
                   /\ resp' = ErrorResponse("InternalError")
                   /\ attempt_log' = <<>>
                   /\ proxied_bytes' = NoBytes
                   /\ ad_served' = ad_served
              ELSE /\ upstream' = a.upstream
                   /\ resp' = a.resp
                   /\ attempt_log' = a.log
                   /\ proxied_bytes' = a.bytes
                   /\ ad_served' = IF a.resp.status = 200 THEN ad_served \cup {ad_name}
                                   ELSE ad_served
           /\ beacons' = beacons
           /\ UNCHANGED <<config_origin, hlsVars, urlVars, trkVars, vastVars, laterVars>>

NextSrv == ServePlaylist \/ ServeManifest \/ ServeSegment \/ ServeAd

SpecSrv == InitSrv /\ [][NextSrv]_vars

(***************************************************************************)
(* SpecTrk: the segments of one ad are served in order, each firing the    *)
(* events events_for_segment selects for it.                               *)
(***************************************************************************)
MaxTotalSegments == 12

EVENTS_FULL ==
    <<TrackingEvent("start"), TrackingEvent("firstQuartile"), TrackingEvent("midpoint"),
      TrackingEvent("thirdQuartile"), TrackingEvent("complete")>>

\* the tracking events of a VAST ad: the five in document order, in another
\* order, and with events the stitcher does not know between them
EventLists ==
    { EVENTS_FULL,
      <<TrackingEvent("complete"), TrackingEvent("thirdQuartile"), TrackingEvent("midpoint"),
        TrackingEvent("firstQuartile"), TrackingEvent("start")>>,
      <<TrackingEvent("creativeView"), TrackingEvent("start"), TrackingEvent("midpoint"),
        TrackingEvent("firstQuartile"), TrackingEvent("pause"),
        TrackingEvent("thirdQuartile"), TrackingEvent("complete")>> }

Names(events) == {events[k].event : k \in 1..Len(events)}

InitTrk ==
    /\ total_segments \in 1..MaxTotalSegments
    /\ tracking_events \in EventLists
    /\ next_segment = 0
    /\ last_fired = <<>>
    /\ fired = NothingFired
    /\ HlsIdle /\ UrlIdle /\ SrvIdle /\ VastIdle /\ LaterIdle

ServeAdSegment ==
    /\ next_segment < total_segments
    /\ LET events == events_for_segment(next_segment, total_segments, tracking_events)
       IN /\ last_fired' = events
          /\ fired' = [e \in EventNames |->
                          fired[e] + Cardinality({k \in 1..Len(events) : events[k].event = e})]
    /\ next_segment' = next_segment + 1
    /\ UNCHANGED <<total_segments, tracking_events, hlsVars, urlVars, srvVars, vastVars, laterVars>>

NextTrk == ServeAdSegment

SpecTrk == InitTrk /\ [][NextTrk]_vars

(***************************************************************************)
(* SpecVast: one fetch_vast(endpoint, 0, session) call.  What a VAST       *)
(* server answers is an input of every request: it may fail, send XML that *)
(* does not parse, or send ads that are InLine or Wrappers pointing at any *)
(* tag URI, the requested URI included.                                    *)
(***************************************************************************)
TagUris == {"tag-a", "tag-b"}

VastAnswers ==
    { <<>>, <<InLineAd("media-1")>>, <<InLineAd("media-2"), WrapperAd("tag-a")>>,
      <<WrapperAd("tag-b"), InLineAd("media-3")>> }
        \cup {<<WrapperAd(u)>> : u \in TagUris}

Top == vstack[Len(vstack)]

Finish(result) ==
    /\ vstack' = ReturnFrom(vstack, result)
    /\ IF Len(vstack) = 1
       THEN vpc' = "done" /\ vresult' = result
       ELSE UNCHANGED <<vpc, vresult>>

InitVast ==
    /\ vpc = "start"
    /\ vstack = <<>>
    /\ vresult = NoCreatives
    /\ vguard = FALSE
    /\ HlsIdle /\ UrlIdle /\ SrvIdle /\ TrkIdle /\ LaterIdle

\* get_ad_segments: `self.fetch_vast(&url, 0, session_id)`
CallFetchVast ==
    /\ vpc = "start"
    /\ \E u \in TagUris : vstack' = <<Frame(u, 0)>>
    /\ vpc' = "running"
    /\ UNCHANGED <<vresult, vguard, hlsVars, urlVars, srvVars, trkVars, laterVars>>

\* the depth check at the head of fetch_vast cuts the call off
DepthCutOff ==
    /\ vpc = "running" /\ ~Top.fetched
    /\ DepthExceeded(Top.depth)
    /\ Finish(NoCreatives)
    /\ vguard' = TRUE
    /\ UNCHANGED <<hlsVars, urlVars, srvVars, trkVars, laterVars>>

\* both HTTP attempts fail, or the body cannot be read or parsed: return None
FetchFails ==
    /\ vpc = "running" /\ ~Top.fetched
    /\ ~DepthExceeded(Top.depth)
    /\ Finish(NoCreatives)
    /\ UNCHANGED <<vguard, hlsVars, urlVars, srvVars, trkVars, laterVars>>

\* an attempt succeeds and the XML parses
FetchParses ==
    /\ vpc = "running" /\ ~Top.fetched
    /\ ~DepthExceeded(Top.depth)
    /\ \E answer \in VastAnswers :
           vstack' = [vstack EXCEPT ![Len(vstack)] =
                         [Top EXCEPT !.fetched = TRUE, !.ads = answer]]
    /\ UNCHANGED <<vpc, vresult, vguard, hlsVars, urlVars, srvVars, trkVars, laterVars>>

\* `VastAdType::InLine`: push the creative of the ad
WalkInLine ==
    /\ vpc = "running" /\ Top.fetched
    /\ Top.ads # <<>> /\ Head(Top.ads).kind = "InLine"
    /\ vstack' = [vstack EXCEPT ![Len(vstack)] =
                     [Top EXCEPT
                         !.ads = Tail(Top.ads),
                         !.creatives = Append(Top.creatives,
                                              Creative(Head(Top.ads).media, Top.depth))]]
    /\ UNCHANGED <<vpc, vresult, vguard, hlsVars, urlVars, srvVars, trkVars, laterVars>>

\* `VastAdType::Wrapper`: `self.fetch_vast(&wrapper.ad_tag_uri, depth + 1, session_id)`
FollowWrapper ==
    /\ vpc = "running" /\ Top.fetched
    /\ Top.ads # <<>> /\ Head(Top.ads).kind = "Wrapper"
    /\ vstack' = Append(vstack, Frame(Head(Top.ads).ad_tag_uri, Top.depth + 1))
    /\ UNCHANGED <<vpc, vresult, vguard, hlsVars, urlVars, srvVars, trkVars, laterVars>>

\* the loop over the ads is over: `Some(creatives)`
ReturnCreatives ==
    /\ vpc = "running" /\ Top.fetched
    /\ Top.ads = <<>>
    /\ Finish(Some(Top.creatives))
    /\ UNCHANGED <<vguard, hlsVars, urlVars, srvVars, trkVars, laterVars>>

NextVast ==
    \/ CallFetchVast
    \/ DepthCutOff
    \/ FetchFails
    \/ FetchParses
    \/ WalkInLine
    \/ FollowWrapper
    \/ ReturnCreatives

SpecVast == InitVast /\ [][NextVast]_vars

\* a call that can take a step takes one: the thread running get_ad_segments is
\* blocked in fetch_vast until it returns, and every HTTP attempt has a timeout
FairSpecVast == SpecVast /\ WF_vars(NextVast)

(***************************************************************************)
(* SpecSes: the session manager under its callers.  The clock advances or  *)
(* is set back between calls; the sweeper task of build_router calls       *)
(* cleanup_expired whenever its interval fires; the stitch handlers answer *)
(* requests that carry a session id.                                       *)
(***************************************************************************)
MaxTime == 4        \* clock readings 0 .. MaxTime
MaxTtl == 2         \* session_ttl_secs 0 .. MaxTtl

SessionIds == {"s1", "s2"}
StitchHandlers == {"playlist", "manifest", "segment", "ad", "asset-list"}

InitSes ==
    /\ sessions = <<>>
    /\ now = 0
    /\ session_ttl \in 0..MaxTtl
    /\ expired_seen = {}
    /\ handled = {}
    /\ CoreIdle /\ AdsIdle /\ DashIdle /\ MoreIdle

GetOrCreate ==
    /\ \E id \in SessionIds :
           /\ sessions' = get_or_create(sessions, id, "https://example.com", now)
           /\ expired_seen' = IF id \in DOMAIN sessions
                              THEN expired_seen ELSE expired_seen \ {id}
    /\ UNCHANGED <<now, session_ttl, handled, notSes>>

Touch ==
    /\ \E id \in SessionIds :
           /\ sessions' = touch(sessions, id, now)
           /\ expired_seen' = IF id \in DOMAIN sessions
                              THEN expired_seen \ {id} ELSE expired_seen
    /\ UNCHANGED <<now, session_ttl, handled, notSes>>

Remove ==
    /\ \E id \in SessionIds : sessions' = remove(sessions, id)
    /\ UNCHANGED <<now, session_ttl, expired_seen, handled, notSes>>

\* the sweeper task: `interval.tick().await; cleanup_sessions.cleanup_expired().await`
CleanupExpired ==
    /\ sessions' = cleanup_expired(sessions, now, session_ttl)
    /\ expired_seen' = expired_seen \cup
           {id \in DOMAIN sessions : now >= sessions[id].last_accessed + session_ttl}
    /\ UNCHANGED <<now, session_ttl, handled, notSes>>

ClockAdvances ==
    /\ now < MaxTime
    /\ now' = now + 1
    /\ UNCHANGED <<sessions, session_ttl, expired_seen, handled, notSes>>

ClockSetBack ==
    /\ now > 0
    /\ now' = now - 1
    /\ UNCHANGED <<sessions, session_ttl, expired_seen, handled, notSes>>

\* serve_playlist, serve_manifest, serve_segment, serve_ad, serve_asset_list: none
\* of them calls state.sessions
StitchRequest ==
    /\ \E h \in StitchHandlers, id \in SessionIds : handled' = handled \cup {id}
    /\ UNCHANGED <<sessions, now, session_ttl, expired_seen, notSes>>

NextSes ==
    \/ GetOrCreate
    \/ Touch
    \/ Remove
    \/ CleanupExpired
    \/ ClockAdvances
    \/ ClockSetBack
    \/ StitchRequest

SpecSes == InitSes /\ [][NextSes]_vars

(***************************************************************************)
(* SpecAds: the VAST provider answering the get_ad_segments calls of       *)
(* process_playlist, one call per detected break, with the cache sweeper   *)
(* task running between calls.  What fetch_vast returned is an input of    *)
(* each call; the break duration is any f32 a CUE-OUT tag can carry.       *)
(***************************************************************************)
MaxCacheTime == 2   \* clock readings 0 .. MaxCacheTime in SpecAds

SlateConfigs == {NoSlate, Some(SlateProvider(F32(2))), Some(SlateProvider(F32(0)))}

BreakDurations == {F32(7), F32(0), F32(0 - 5), F32NaN, F32Inf}

VastCreative(creative_url) == [url |-> creative_url, duration |-> F32(15), is_hls |-> FALSE]

\* results of fetch_vast: failure, no creative, one creative, two creatives
FetchResults ==
    { NoCreatives, Some(<<>>),
      Some(<<VastCreative("media-1")>>),
      Some(<<VastCreative("media-2"), VastCreative("media-3")>>) }

InitAds ==
    /\ slate \in SlateConfigs
    /\ ad_cache = <<>>
    /\ ad_cache_inserted_at = <<>>
    /\ ad_call = NoAdCall
    /\ ad_out = NoAdOut
    /\ now = 0
    /\ session_ttl = 1
    /\ sessions = <<>> /\ expired_seen = {} /\ handled = {}
    /\ CoreIdle /\ DashIdle /\ MoreIdle

\* process_playlist: `ad_provider.get_ad_segments(ad_break.duration, session_id)`,
\* then interleaving and the 200 response; a panic ends the request without one
CallGetAdSegments ==
    /\ \E session_id \in SessionIds, duration \in BreakDurations, fetched \in FetchResults :
           LET out == get_ad_segments(ad_cache, slate, duration, session_id, fetched)
           IN /\ ad_cache' = out.cache
              /\ ad_cache_inserted_at' =
                     [k \in DOMAIN out.cache |->
                         IF fetched.some /\ k[1] = session_id /\ k[2][4] < Len(fetched.val)
                         THEN now ELSE ad_cache_inserted_at[k]]
              /\ ad_call' = [op |-> "get_ad_segments", session_id |-> session_id,
                             duration |-> duration, fetched |-> fetched]
              /\ ad_out' = [panic |-> out.panic, segments |-> out.segments,
                            status |-> IF out.panic THEN 0 ELSE 200]
    /\ UNCHANGED <<slate, now, session_ttl, notAds>>

\* the sweeper task: `cleanup_ad_provider.cleanup_cache()`
CleanupCache ==
    /\ \E kept \in CacheSurvivors(
                       CacheUnexpired(ad_cache, ad_cache_inserted_at, now, session_ttl),
                       ad_cache_inserted_at) :
           /\ ad_cache' = [k \in kept |-> ad_cache[k]]
           /\ ad_cache_inserted_at' = [k \in kept |-> ad_cache_inserted_at[k]]
    /\ ad_call' = [NoAdCall EXCEPT !.op = "cleanup_cache"]
    /\ UNCHANGED <<slate, ad_out, now, session_ttl, notAds>>

CacheClockAdvances ==
    /\ now < MaxCacheTime
    /\ now' = now + 1
    /\ UNCHANGED <<adsVars, session_ttl, notAds>>

NextAds ==
    \/ CallGetAdSegments
    \/ CleanupCache
    \/ CacheClockAdvances

SpecAds == InitAds /\ [][NextAds]_vars

(***************************************************************************)
(* dash/interleaver.rs                                                     *)
(*                                                                         *)
(* An MPD is its list of Periods; a Period is its id, duration and         *)
(* AdaptationSets; Option<String> fields are [some, val] records.          *)
(***************************************************************************)
MaxPeriods == 2       \* Periods of the MPD handed to interleave_ads_mpd
MaxDashBreaks == 2    \* ad breaks handed to interleave_ads_mpd

NoStr == [some |-> FALSE, val |-> ""]
NoBandwidth == [some |-> FALSE, val |-> 0]

Representation(id, bandwidth, segment_urls) ==
    [id |-> id, bandwidth |-> bandwidth, segment_urls |-> segment_urls]

AdaptationSet(content_type, mime_type, lang, representations) ==
    [contentType |-> content_type, mimeType |-> mime_type, lang |-> lang,
     representations |-> representations]

Period(id, duration, adaptations) ==
    [id |-> id, duration |-> duration, adaptations |-> adaptations]

DashAdBreak(period_index, duration) == [period_index |-> period_index, duration |-> duration]

\* `{base_url}/stitch/{session_id}/ad/break-{break_idx}-seg-{seg_idx}.ts`
SegmentUrls(ad_segments, break_idx) ==
    [k \in 1..Len(ad_segments) |-> AdUri(break_idx, k - 1)]

default_bandwidth == 500000

create_fallback_video_adaptation_set(break_idx, segment_urls) ==
    AdaptationSet(Some("video"), Some("video/mp4"), NoStr,
                  <<Representation(Some(<<"ad-rep", break_idx>>), Some(default_bandwidth),
                                   segment_urls)>>)

\* `content_as.representations.first().and_then(|r| r.bandwidth).unwrap_or(500_000)`
FirstBandwidth(content_as) ==
    IF content_as.representations # <<>> /\ content_as.representations[1].bandwidth.some
    THEN content_as.representations[1].bandwidth.val
    ELSE default_bandwidth

MirrorAdaptations(content_adaptations, break_idx, segment_urls) ==
    [a \in 1..Len(content_adaptations) |->
        AdaptationSet(content_adaptations[a].contentType,
                      content_adaptations[a].mimeType,
                      content_adaptations[a].lang,
                      <<Representation(Some(<<"ad-rep", break_idx, a - 1>>),
                                       Some(FirstBandwidth(content_adaptations[a])),
                                       segment_urls)>>)]

\* create_ad_period that always emits the fallback video AdaptationSet
create_ad_period_VideoOnly(ad_segments, break_idx, content_adaptations) ==
    LET total_duration == SumSeq([k \in 1..Len(ad_segments) |-> ad_segments[k].duration.v])
    IN [panic |-> total_duration < 0,
        period |-> Period(Some(<<"ad", break_idx>>), Some(total_duration),
                          <<create_fallback_video_adaptation_set(
                                break_idx, SegmentUrls(ad_segments, break_idx))>>)]

\* `Duration::from_secs_f64(total_duration)` panics on a negative total
create_ad_period(ad_segments, break_idx, content_adaptations) ==
    LET total_duration == SumSeq([k \in 1..Len(ad_segments) |-> ad_segments[k].duration.v])
        segment_urls == SegmentUrls(ad_segments, break_idx)
        adaptations ==
            IF content_adaptations = <<>>
            THEN <<create_fallback_video_adaptation_set(break_idx, segment_urls)>>
            ELSE MirrorAdaptations(content_adaptations, break_idx, segment_urls)
    IN [panic |-> total_duration < 0,
        period |-> Period(Some(<<"ad", break_idx>>), Some(total_duration), adaptations)]

\* the insertion that drops an ad Period whose position is past the end
InsertAdPeriod_InRangeOnly(periods, insert_position, ad_period) ==
    IF insert_position <= Len(periods)
    THEN SubSeq(periods, 1, insert_position) \o <<ad_period>>
             \o SubSeq(periods, insert_position + 1, Len(periods))
    ELSE periods

\* `mpd.periods.insert(insert_position, ad_period)`, or `push` past the end
InsertAdPeriod(periods, insert_position, ad_period) ==
    IF insert_position <= Len(periods)
    THEN SubSeq(periods, 1, insert_position) \o <<ad_period>>
             \o SubSeq(periods, insert_position + 1, Len(periods))
    ELSE Append(periods, ad_period)

\* the loop walking the breaks from the first to the last: `.enumerate()` without `.rev()`
RECURSIVE InterleaveMpdLoop_Forward(_, _, _, _)
InterleaveMpdLoop_Forward(periods, breaks, segments_per_break, b) ==
    IF b = 0 THEN [panic |-> FALSE, periods |-> periods]
    ELSE LET f == Len(breaks) - b + 1
         IN IF segments_per_break[f] = <<>>
            THEN InterleaveMpdLoop_Forward(periods, breaks, segments_per_break, b - 1)
            ELSE LET period_index == breaks[f].period_index
                     content_adaptations == IF period_index < Len(periods)
                                            THEN periods[period_index + 1].adaptations
                                            ELSE <<>>
                     ad == create_ad_period(segments_per_break[f], f - 1, content_adaptations)
                 IN IF ad.panic THEN [panic |-> TRUE, periods |-> periods]
                    ELSE InterleaveMpdLoop_Forward(
                             InsertAdPeriod(periods, period_index + 1, ad.period),
                             breaks, segments_per_break, b - 1)

\* the loop of interleave_ads_mpd, from break b (1-based) down to the first
RECURSIVE InterleaveMpdLoop(_, _, _, _)
InterleaveMpdLoop(periods, breaks, segments_per_break, b) ==
    IF b = 0 THEN [panic |-> FALSE, periods |-> periods]
    ELSE IF segments_per_break[b] = <<>>
    THEN InterleaveMpdLoop(periods, breaks, segments_per_break, b - 1)
    ELSE LET period_index == breaks[b].period_index
             content_adaptations == IF period_index < Len(periods)
                                    THEN periods[period_index + 1].adaptations
                                    ELSE <<>>
             ad == create_ad_period(segments_per_break[b], b - 1, content_adaptations)
         IN IF ad.panic THEN [panic |-> TRUE, periods |-> periods]
            ELSE InterleaveMpdLoop(InsertAdPeriod(periods, period_index + 1, ad.period),
                                   breaks, segments_per_break, b - 1)

interleave_ads_mpd(periods, breaks, segments_per_break) ==
    IF breaks = <<>> THEN [panic |-> FALSE, periods |-> periods]
    ELSE IF Len(breaks) # Len(segments_per_break) THEN [panic |-> FALSE, periods |-> periods]
    ELSE InterleaveMpdLoop(periods, breaks, segments_per_break, Len(breaks))

(***************************************************************************)
(* SpecDash: interleave_ads_mpd called on an MPD of up to MaxPeriods       *)
(* Periods with up to MaxDashBreaks breaks in the order the detector emits *)
(* them (non-decreasing period_index), period indices past the last Period *)
(* included, and with one ad list per break or one list too few.           *)
(***************************************************************************)
VideoSet ==
    AdaptationSet(Some("video"), Some("video/mp4"), NoStr,
                  <<Representation(Some("v1"), Some(800000), <<>>)>>)
AudioSet(lang) ==
    AdaptationSet(Some("audio"), Some("audio/mp4"), Some(lang),
                  <<Representation(Some("a1"), NoBandwidth, <<>>)>>)
UntypedSet == AdaptationSet(NoStr, Some("video/webm"), NoStr, <<>>)

AdaptationLists ==
    {<<>>, <<VideoSet>>, <<VideoSet, AudioSet("en"), AudioSet("sv")>>, <<UntypedSet>>}

ContentPeriods(lists) ==
    [i \in 1..Len(lists) |-> Period(Some(<<"p", i - 1>>), NoBandwidth, lists[i])]

DetectorOrder(indices) ==
    \A i \in 1..Len(indices) : \A j \in (i + 1)..Len(indices) : indices[i] <= indices[j]

DashBreakLists ==
    {[b \in 1..Len(indices) |-> DashAdBreak(indices[b], 30)] :
        indices \in {i \in SeqsUpTo(0..(MaxPeriods + 1), MaxDashBreaks) : DetectorOrder(i)}}

\* no ad, one ad, two ads, and an ad whose VAST duration came out negative
DashAdLists ==
    { <<>>,
      <<AdSegment(AdName(0, 0), F32(10))>>,
      <<AdSegment(AdName(0, 0), F32(10)), AdSegment(AdName(0, 1), F32(5))>>,
      <<AdSegment(AdName(0, 0), F32(0 - 5))>> }

InitDash ==
    /\ dpc = "input"
    /\ \E lists \in SeqsUpTo(AdaptationLists, MaxPeriods) : mpd = ContentPeriods(lists)
    /\ dash_ad_breaks \in DashBreakLists
    /\ dash_ad_segments \in SeqsUpTo(DashAdLists, MaxDashBreaks)
    /\ Len(dash_ad_segments) \in {Len(dash_ad_breaks), Len(dash_ad_breaks) - 1}
    /\ mpd_out = <<>>
    /\ CoreIdle /\ SesIdle /\ AdsIdle /\ MoreIdle

InterleaveAdsMpd ==
    /\ dpc = "input"
    /\ LET out == interleave_ads_mpd(mpd, dash_ad_breaks, dash_ad_segments)
       IN /\ dpc' = IF out.panic THEN "panicked" ELSE "interleaved"
          /\ mpd_out' = IF out.panic THEN <<>> ELSE out.periods
    /\ UNCHANGED <<mpd, dash_ad_breaks, dash_ad_segments, notDash>>

NextDash == InterleaveAdsMpd

SpecDash == InitDash /\ [][NextDash]_vars

(***************************************************************************)
(* ad/provider.rs, ad/slate.rs, ad/vast_provider.rs: resolve_segment_url   *)
(*                                                                         *)
(* A source URL is a tuple: the creative URL of a VAST media file, or the  *)
(* ad source / slate base with the out_NNN.ts index.                       *)
(***************************************************************************)
segment_count == 10

CreativeUrl(media_url) == <<"creative", media_url>>
AdSourceUrl(source_index) == <<"ad-source", "out", source_index>>
SlateUrl(source_index) == <<"slate", "out", source_index>>

\* StaticAdProvider::parse_segment_index: "break-0-seg-3.ts" -> Some(3)
parse_segment_index(ad_name) ==
    IF Len(ad_name) >= 4 /\ ad_name[1] = "break" /\ ad_name[3] = "seg"
    THEN Some(ad_name[4])
    ELSE [some |-> FALSE, val |-> 0]

\* StaticAdProvider::get_ad_segments for durations that give a finite count
static_get_ad_segments(segment_duration, duration) ==
    LET num_segments == CeilQuotientAsUsize(duration, segment_duration)
        at_least_one == IF num_segments.n < 1 THEN 1 ELSE num_segments.n
    IN [i \in 1..at_least_one |-> AdSegment(<<"ad-segment", i - 1>>, segment_duration)]

static_resolve_segment_url(ad_name) ==
    LET seg_index == parse_segment_index(ad_name)
    IN IF seg_index.some THEN Some(AdSourceUrl(seg_index.val % segment_count))
       ELSE NoSourceUrl

\* SlateProvider::resolve_segment_url: "slate-seg-{index}.ts" only
slate_resolve_segment_url(segment_name) ==
    IF Len(segment_name) = 2 /\ segment_name[1] = "slate-seg"
    THEN Some(SlateUrl(segment_name[2] % segment_count))
    ELSE NoSourceUrl

\* VastAdProvider::resolve_segment_url: the values it can return; the scan of the
\* DashMap returns the first entry in iteration order whose key ends with
\* ":{ad_name}", and that order is not specified
vast_resolve_segment_url(cache, slate_opt, ad_name) ==
    IF ad_name[1] = "slate-seg"
    THEN IF slate_opt.some THEN {slate_resolve_segment_url(ad_name)} ELSE {NoSourceUrl}
    ELSE LET matching == {k \in DOMAIN cache : k[2] = ad_name}
         IN IF matching = {} THEN {NoSourceUrl}
            ELSE {Some(CreativeUrl(cache[k].url)) : k \in matching}

resolve_segment_url(provider, cache, slate_opt, ad_name) ==
    IF provider = "static" THEN {static_resolve_segment_url(ad_name)}
    ELSE vast_resolve_segment_url(cache, slate_opt, ad_name)

(***************************************************************************)
(* SpecResolve: playlist requests of two sessions, each with up to         *)
(* MaxBreaks breaks answered by the configured provider, and the serve_ad  *)
(* requests for the ad URIs the playlists carried.                         *)
(***************************************************************************)
MaxBreaks == 2

ResolveBreakDuration == F32(15)
StaticSegmentDuration == F32(10)

\* the source URL behind segment j (1-based) of what the provider returned for a break
ObtainedUrl(provider, fetched, j) ==
    IF provider = "static" THEN AdSourceUrl((j - 1) % segment_count)
    ELSE IF fetched.some /\ fetched.val # <<>> THEN CreativeUrl(fetched.val[j].url)
    ELSE SlateUrl((j - 1) % segment_count)

\* process_playlist (SSAI): get_ad_segments for each break, then the URIs
\* {base_url}/stitch/{session_id}/ad/break-{b}-seg-{j}.ts of interleave_ads
RECURSIVE StitchBreaks(_, _, _, _, _, _, _)
StitchBreaks(provider, cache, slate_opt, session_id, fetched, b, uris) ==
    IF b > Len(fetched) THEN [cache |-> cache, uris |-> uris]
    ELSE LET out == IF provider = "static"
                    THEN [cache |-> cache,
                          segments |-> static_get_ad_segments(StaticSegmentDuration,
                                                              ResolveBreakDuration)]
                    ELSE get_ad_segments(cache, slate_opt, ResolveBreakDuration, session_id,
                                         fetched[b])
         IN StitchBreaks(provider, out.cache, slate_opt, session_id, fetched, b + 1,
                uris \cup {[session_id |-> session_id,
                            ad_name |-> AdName(b - 1, j - 1),
                            creative |-> ObtainedUrl(provider, fetched[b], j)] :
                              j \in 1..Len(out.segments)})

InitResolve ==
    /\ ad_provider \in {"static", "vast"}
    /\ slate \in IF ad_provider = "vast" THEN {NoSlate, Some(SlateProvider(F32(10)))}
                 ELSE {NoSlate}
    /\ ad_cache = <<>>
    /\ ad_cache_inserted_at = <<>>
    /\ ad_call = NoAdCall
    /\ ad_out = NoAdOut
    /\ emitted = {}
    /\ resolved = NoResolved
    /\ CoreIdle /\ SesIdle /\ DashIdle /\ RwIdle /\ GcIdle

ServeStitchedPlaylist ==
    /\ \E session_id \in SessionIds, n \in 1..MaxBreaks :
           \E fetched \in [1..n -> FetchResults] :
               LET out == StitchBreaks(ad_provider, ad_cache, slate, session_id, fetched,
                                       1, {})
               IN /\ ad_cache' = out.cache
                  /\ ad_cache_inserted_at' = [k \in DOMAIN out.cache |-> now]
                  /\ emitted' = {e \in emitted : e.session_id # session_id} \cup out.uris
    /\ resolved' = NoResolved
    /\ UNCHANGED <<ad_provider, slate, ad_call, ad_out, sesVars, coreVars, dashVars,
                   rwVars, gcVars>>

\* serve_ad for an ad URI of a playlist sent: `ad_provider.resolve_segment_url(&ad_name)`
ResolveEmittedAd ==
    /\ \E e \in emitted :
           \E ad_url \in resolve_segment_url(ad_provider, ad_cache, slate, e.ad_name) :
               resolved' = [some |-> TRUE, session_id |-> e.session_id,
                            ad_name |-> e.ad_name, url |-> ad_url]
    /\ UNCHANGED <<ad_provider, emitted, adsVars, sesVars, coreVars, dashVars, rwVars, gcVars>>

NextResolve == ServeStitchedPlaylist \/ ResolveEmittedAd

SpecResolve == InitResolve /\ [][NextResolve]_vars

(***************************************************************************)
(* SpecConcurrent: request tasks calling get_or_create concurrently on a   *)
(* SessionManager of either backend.  On the Memory backend the call is    *)
(* one step under the DashMap entry lock; on the Valkey backend the task   *)
(* yields at the GET and at the SET, so other tasks run in between.        *)
(***************************************************************************)
MaxCallers == 2

Callers == 1..MaxCallers

CallerOrigins == {"https://a.example.com", "https://b.example.com"}

IdleCaller == [pc |-> "idle", session_id |-> "", origin_url |-> "",
               reply |-> NoSession, result |-> NoSession]

\* `SET key json EX ttl`: the key's value is replaced
valkey_set(map, session_id, session) ==
    [k \in DOMAIN map \cup {session_id} |-> IF k = session_id THEN session ELSE map[k]]

InitConcurrent ==
    /\ backend \in {"Memory", "Valkey"}
    /\ callers = [c \in Callers |-> IdleCaller]
    /\ now = 1
    /\ sessions \in {<<>>,
                     touch(get_or_create(<<>>, "s2", "https://a.example.com", 0), "s2", 1)}
    /\ session_ttl = 0
    /\ expired_seen = {}
    /\ handled = {}
    /\ CoreIdle /\ AdsIdle /\ DashIdle /\ RwIdle /\ RsIdle

\* Backend::Memory: `sessions.entry(id).or_insert_with(..).clone()`
MemoryGetOrCreate(c) ==
    /\ backend = "Memory"
    /\ callers[c].pc = "idle"
    /\ \E id \in SessionIds, origin_url \in CallerOrigins :
           /\ sessions' = get_or_create(sessions, id, origin_url, now)
           /\ callers' = [callers EXCEPT ![c] =
                  [pc |-> "returned", session_id |-> id, origin_url |-> origin_url,
                   reply |-> NoSession, result |-> Some(sessions'[id])]]
    /\ UNCHANGED <<backend, now, session_ttl, expired_seen, handled,
                   coreVars, adsVars, dashVars, rwVars, rsVars>>

\* Backend::Valkey, up to the reply of GET: an existing session is returned
ValkeyGet(c) ==
    /\ backend = "Valkey"
    /\ callers[c].pc = "idle"
    /\ \E id \in SessionIds, origin_url \in CallerOrigins :
           LET reply == get(sessions, id)
           IN callers' = [callers EXCEPT ![c] =
                  [pc |-> IF reply.some THEN "returned" ELSE "creating",
                   session_id |-> id, origin_url |-> origin_url,
                   reply |-> reply, result |-> reply]]
    /\ UNCHANGED <<backend, sessions, now, session_ttl, expired_seen, handled,
                   coreVars, adsVars, dashVars, rwVars, rsVars>>

\* Backend::Valkey, after a GET that found nothing: build the Session and SET it
ValkeyCreateAndSet(c) ==
    /\ backend = "Valkey"
    /\ callers[c].pc = "creating"
    /\ LET session == Session(callers[c].session_id, callers[c].origin_url, now)
       IN /\ sessions' = valkey_set(sessions, callers[c].session_id, session)
          /\ callers' = [callers EXCEPT ![c].pc = "returned", ![c].result = Some(session)]
    /\ UNCHANGED <<backend, now, session_ttl, expired_seen, handled,
                   coreVars, adsVars, dashVars, rwVars, rsVars>>

\* the request that made the call ends; the task slot takes the next request
RequestDone(c) ==
    /\ callers[c].pc = "returned"
    /\ callers' = [callers EXCEPT ![c] = IdleCaller]
    /\ UNCHANGED <<backend, sesVars, coreVars, adsVars, dashVars, rwVars, rsVars>>

ConcurrentClockAdvances ==
    /\ now < MaxTime
    /\ now' = now + 1
    /\ UNCHANGED <<backend, callers, sessions, session_ttl, expired_seen, handled,
                   coreVars, adsVars, dashVars, rwVars, rsVars>>

NextConcurrent ==
    \/ \E c \in Callers : MemoryGetOrCreate(c)
    \/ \E c \in Callers : ValkeyGet(c)
    \/ \E c \in Callers : ValkeyCreateAndSet(c)
    \/ \E c \in Callers : RequestDone(c)
    \/ ConcurrentClockAdvances

SpecConcurrent == InitConcurrent /\ [][NextConcurrent]_vars

(***************************************************************************)
(* hls/parser.rs                                                           *)
(*                                                                         *)
(* A URI is a sequence of tokens; "/", "?" and "&" are tokens of their own *)
(* and no other token contains one of them, so that `contains("/stitch/")`,*)
(* `rsplit_once('/')` and the query string are read off the sequence.      *)
(***************************************************************************)
\* str::contains for a pattern of tokens
Contains(uri, pattern) ==
    \E i \in 0..(Len(uri) - Len(pattern)) :
        \A j \in 1..Len(pattern) : uri[i + j] = pattern[j]

\* `uri.starts_with("http")`: the first token begins with the letters http
HttpTokens == {"http:", "https:", "httpdocs", "http.ts"}
StartsWithHttp(uri) == uri # <<>> /\ uri[1] \in HttpTokens

\* `uri.rsplit_once('/').unwrap_or(("", uri))`
RsplitOnceSlash(uri) ==
    LET slashes == {i \in 1..Len(uri) : uri[i] = "/"}
    IN IF slashes = {} THEN [left |-> <<>>, right |-> uri]
       ELSE LET last == CHOOSE i \in slashes : \A j \in slashes : j <= i
            IN [left |-> SubSeq(uri, 1, last - 1), right |-> SubSeq(uri, last + 1, Len(uri))]

StitchMark == <<"/", "stitch", "/">>

\* `{base_url}/stitch/{session_id}/segment/{name}?origin={origin}`
SegmentProxyUri(base_url, session_id, name, origin) ==
    base_url \o StitchMark \o <<session_id, "/", "segment", "/">> \o name
        \o <<"?", "origin=">> \o origin

\* rewrite_content_urls without `if segment.uri.contains("/stitch/") { continue; }`
rewrite_content_urls_NoSkip(uris, session_id, base_url, origin_base) ==
    [k \in 1..Len(uris) |->
        IF StartsWithHttp(uris[k])
        THEN LET parts == RsplitOnceSlash(uris[k])
             IN SegmentProxyUri(base_url, session_id, parts.right, parts.left)
        ELSE SegmentProxyUri(base_url, session_id, uris[k], origin_base)]

\* rewrite_content_urls on the segment URIs of a media playlist; it touches no
\* other field of a segment
rewrite_content_urls(uris, session_id, base_url, origin_base) ==
    [k \in 1..Len(uris) |->
        IF Contains(uris[k], StitchMark) THEN uris[k]
        ELSE IF StartsWithHttp(uris[k])
        THEN LET parts == RsplitOnceSlash(uris[k])
             IN SegmentProxyUri(base_url, session_id, parts.right, parts.left)
        ELSE SegmentProxyUri(base_url, session_id, uris[k], origin_base)]

\* create_media_segment_from_ad's URI as text:
\* `{base_url}/stitch/{session_id}/ad/break-{break_idx}-seg-{segment_idx}.ts`
AdProxyUri(base_url, session_id, break_idx, segment_idx) ==
    base_url \o StitchMark \o <<session_id, "/", "ad", "/", AdName(break_idx, segment_idx)>>

\* `{base_url}/stitch/{session_id}/playlist.m3u8?origin={absolute_url}`
PlaylistProxyUri(base_url, session_id, absolute_url) ==
    base_url \o StitchMark \o <<session_id, "/", "playlist.m3u8", "?", "origin=">>
        \o absolute_url

\* `if uri.starts_with("http") { uri } else { format!("{}/{}", origin_base, uri) }`
AbsoluteUrl(uri, origin_base) ==
    IF StartsWithHttp(uri) THEN uri ELSE origin_base \o <<"/">> \o uri

VariantStream(uri) == [uri |-> uri]
AlternativeMedia(media_type, uri) == [media_type |-> media_type, uri |-> uri]
MasterPlaylist(variants, alternatives) == [variants |-> variants, alternatives |-> alternatives]
NoUri == [some |-> FALSE, val |-> <<>>]

rewrite_master_urls(master, session_id, base_url, origin_base) ==
    MasterPlaylist(
        [v \in 1..Len(master.variants) |->
            VariantStream(PlaylistProxyUri(base_url, session_id,
                              AbsoluteUrl(master.variants[v].uri, origin_base)))],
        [a \in 1..Len(master.alternatives) |->
            IF master.alternatives[a].uri.some
            THEN [master.alternatives[a] EXCEPT !.uri =
                     Some(PlaylistProxyUri(base_url, session_id,
                              AbsoluteUrl(master.alternatives[a].uri.val, origin_base)))]
            ELSE master.alternatives[a]])

\* axum's Query<HashMap>: the value of `key` in the query string, the text after
\* the first "?" split at "&"; the last pair with that key wins
QueryGet(uri, key) ==
    LET marks == {i \in 1..Len(uri) : uri[i] = "?"}
    IN IF marks = {} THEN NoUri
       ELSE LET q == CHOOSE i \in marks : \A j \in marks : i <= j
                keys == {i \in (q + 1)..(Len(uri) - 1) :
                            uri[i] = key /\ uri[i - 1] \in {"?", "&"}}
            IN IF keys = {} THEN NoUri
               ELSE LET k == CHOOSE i \in keys : \A j \in keys : j <= i
                        stops == {i \in (k + 1)..Len(uri) : uri[i] = "&"}
                        stop == IF stops = {} THEN Len(uri) + 1
                                ELSE CHOOSE i \in stops : \A j \in stops : i <= j
                    IN Some(SubSeq(uri, k + 1, stop - 1))

\* serve_playlist: `match params.get("track") { Some("audio") .. Some("subtitles") .. _ => "video" }`
TrackTypeOf(uri) ==
    LET t == QueryGet(uri, "track=")
    IN IF t = Some(<<"audio">>) THEN "audio"
       ELSE IF t = Some(<<"subtitles">>) THEN "subtitles"
       ELSE "video"

(***************************************************************************)
(* SpecRewrite: rewrite_content_urls applied to a media playlist, then to  *)
(* its own output.  The playlists hold relative and absolute origin URIs   *)
(* and ad URIs as the interleaver emits them.                              *)
(***************************************************************************)
RwSession == "s1"
RwBaseUrl == <<"http:", "/", "/", "stitcher">>
RwOriginBase == <<"https:", "/", "/", "cdn", "/", "live">>

ContentUris ==
    { <<"seg0.ts">>,
      <<"video", "/", "seg1.ts">>,
      <<"https:", "/", "/", "cdn", "/", "live", "/", "seg2.ts">>,
      <<"httpdocs", "/", "seg3.ts">>,
      <<"http.ts">>,
      <<"https:", "/", "/", "cdn", "/", "stitch", "/", "seg4.ts">> }

SegmentUris == ContentUris \cup {AdProxyUri(RwBaseUrl, RwSession, 0, 0)}

InitRewrite ==
    /\ wpc = "input"
    /\ doc_in \in SeqsUpTo(SegmentUris, MaxSegs)
    /\ doc_out = <<>>
    /\ doc_again = <<>>
    /\ track_type = "none"
    /\ CoreIdle /\ SesIdle /\ AdsIdle /\ DashIdle /\ RsIdle /\ GcIdle

RewriteContentUrls ==
    /\ wpc = "input"
    /\ doc_out' = rewrite_content_urls(doc_in, RwSession, RwBaseUrl, RwOriginBase)
    /\ wpc' = "rewritten"
    /\ UNCHANGED <<doc_in, doc_again, track_type, notRw>>

RewriteContentUrlsAgain ==
    /\ wpc = "rewritten"
    /\ doc_again' = rewrite_content_urls(doc_out, RwSession, RwBaseUrl, RwOriginBase)
    /\ wpc' = "again"
    /\ UNCHANGED <<doc_in, doc_out, track_type, notRw>>

NextRewrite == RewriteContentUrls \/ RewriteContentUrlsAgain

SpecRewrite == InitRewrite /\ [][NextRewrite]_vars

(***************************************************************************)
(* SpecMaster: rewrite_master_urls on a master playlist, then a player's   *)
(* request for one of the rewritten alternative-media URIs.                *)
(***************************************************************************)
VariantUris == {<<"720p", "/", "playlist.m3u8">>,
                <<"https:", "/", "/", "other", "/", "1080p.m3u8">>}

Alternatives ==
    { AlternativeMedia("Audio", Some(<<"audio", "/", "en.m3u8">>)),
      AlternativeMedia("Subtitles", Some(<<"subs", "/", "en.m3u8">>)),
      AlternativeMedia("Subtitles", Some(<<"https:", "/", "/", "other", "/", "sv.m3u8">>)),
      AlternativeMedia("Audio", NoUri),
      AlternativeMedia("ClosedCaptions", NoUri) }

MaxRenditions == 2    \* variants, and alternatives, of a master playlist

InitMaster ==
    /\ wpc = "input"
    /\ \E variants \in SeqsUpTo(VariantUris, MaxRenditions),
          alternatives \in SeqsUpTo(Alternatives, MaxRenditions) :
           doc_in = MasterPlaylist([v \in 1..Len(variants) |-> VariantStream(variants[v])],
                                   alternatives)
    /\ doc_out = <<>>
    /\ doc_again = <<>>
    /\ track_type = "none"
    /\ CoreIdle /\ SesIdle /\ AdsIdle /\ DashIdle /\ RsIdle /\ GcIdle

RewriteMasterUrls ==
    /\ wpc = "input"
    /\ doc_out' = rewrite_master_urls(doc_in, RwSession, RwBaseUrl, RwOriginBase)
    /\ wpc' = "rewritten"
    /\ UNCHANGED <<doc_in, doc_again, track_type, notRw>>

\* the player requests the URI of alternative a of the rewritten master playlist;
\* doc_again records which one
RequestRendition ==
    /\ wpc = "rewritten"
    /\ \E a \in 1..Len(doc_out.alternatives) :
           /\ doc_out.alternatives[a].uri.some
           /\ doc_again' = <<a>>
           /\ track_type' = TrackTypeOf(doc_out.alternatives[a].uri.val)
    /\ wpc' = "requested"
    /\ UNCHANGED <<doc_in, doc_out, notRw>>

NextMaster == RewriteMasterUrls \/ RequestRendition

SpecMaster == InitMaster /\ [][NextMaster]_vars

(***************************************************************************)
(* dash/parser.rs                                                          *)
(*                                                                         *)
(* The MPD as rewrite_dash_urls reads and writes it: the BaseURL list of   *)
(* each of the four levels and the SegmentTemplate of an AdaptationSet and *)
(* of a Representation.  URLs are token sequences as above.                *)
(***************************************************************************)
RECURSIVE TrimEndSlashes(_)
TrimEndSlashes(s) ==
    IF s # <<>> /\ s[Len(s)] = "/" THEN TrimEndSlashes(SubSeq(s, 1, Len(s) - 1))
    ELSE s

RECURSIVE TrimStartSlashes(_)
TrimStartSlashes(s) ==
    IF s # <<>> /\ Head(s) = "/" THEN TrimStartSlashes(Tail(s)) ELSE s

compose_url(base, relative) ==
    IF relative = <<>> THEN base
    ELSE IF StartsWithHttp(relative) THEN relative
    ELSE TrimEndSlashes(base) \o <<"/">> \o TrimStartSlashes(relative)

\* the base a level passes down: composed from its first BaseURL if it has one
LevelBase(parent_base, base_urls) ==
    IF base_urls # <<>> THEN compose_url(parent_base, base_urls[1]) ELSE parent_base

SegmentTemplate(initialization, media) == [initialization |-> initialization, media |-> media]

NoTemplate == [some |-> FALSE, val |-> SegmentTemplate(NoUri, NoUri)]

MpdRepresentation(base_urls, template) == [BaseURL |-> base_urls, SegmentTemplate |-> template]

MpdAdaptationSet(base_urls, template, representations) ==
    [BaseURL |-> base_urls, SegmentTemplate |-> template, representations |-> representations]

MpdPeriod(base_urls, adaptations) == [BaseURL |-> base_urls, adaptations |-> adaptations]

Mpd(base_urls, periods) == [base_url |-> base_urls, periods |-> periods]

rewrite_segment_template(template, session_id, base_url, origin) ==
    SegmentTemplate(
        IF template.initialization.some
        THEN Some(SegmentProxyUri(base_url, session_id, template.initialization.val, origin))
        ELSE template.initialization,
        IF template.media.some
        THEN Some(SegmentProxyUri(base_url, session_id, template.media.val, origin))
        ELSE template.media)

\* `if let Some(ref mut segment_template) = ... { rewrite_segment_template(..) }`
RewriteIfSome(template, session_id, base_url, origin) ==
    IF template.some
    THEN Some(rewrite_segment_template(template.val, session_id, base_url, origin))
    ELSE template

\* the Representation loop from Representation k on; it carries the AdaptationSet's
\* own SegmentTemplate, which the body rewrites in every iteration
RECURSIVE RewriteRepresentations(_, _, _, _, _, _)
RewriteRepresentations(representations, k, adaptation_base, set_template, session_id, base_url) ==
    IF k > Len(representations)
    THEN [representations |-> representations, SegmentTemplate |-> set_template]
    ELSE LET representation == representations[k]
             repr_origin == LevelBase(adaptation_base, representation.BaseURL)
             rewritten == MpdRepresentation(
                              <<>>,
                              RewriteIfSome(representation.SegmentTemplate, session_id,
                                            base_url, repr_origin))
         IN RewriteRepresentations(
                [representations EXCEPT ![k] = rewritten], k + 1, adaptation_base,
                RewriteIfSome(set_template, session_id, base_url, repr_origin),
                session_id, base_url)

RewriteAdaptationSet(adaptation_set, period_base, session_id, base_url) ==
    LET adaptation_base == LevelBase(period_base, adaptation_set.BaseURL)
        done == RewriteRepresentations(adaptation_set.representations, 1, adaptation_base,
                                       adaptation_set.SegmentTemplate, session_id, base_url)
    IN MpdAdaptationSet(<<>>, done.SegmentTemplate, done.representations)

RewritePeriod(period, mpd_base, session_id, base_url) ==
    LET period_base == LevelBase(mpd_base, period.BaseURL)
    IN MpdPeriod(<<>>, [a \in 1..Len(period.adaptations) |->
                          RewriteAdaptationSet(period.adaptations[a], period_base,
                                               session_id, base_url)])

rewrite_dash_urls(doc, session_id, base_url, origin_base) ==
    LET mpd_base == LevelBase(origin_base, doc.base_url)
    IN Mpd(<<>>, [p \in 1..Len(doc.periods) |->
                    RewritePeriod(doc.periods[p], mpd_base, session_id, base_url)])

(***************************************************************************)
(* SpecMpdUrls: rewrite_dash_urls on an MPD of one Period with one         *)
(* AdaptationSet of up to MaxRepresentations Representations, with every   *)
(* combination of BaseURLs and SegmentTemplates at the four levels.        *)
(***************************************************************************)
MaxRepresentations == 2

MpdBaseUrls == { <<>>,
                 << <<"https:", "/", "/", "cdn", "/", "v1", "/">> >>,
                 << <<"dash", "/">>, <<"https:", "/", "/", "second">> >> }
PeriodBaseUrls == { <<>>, << <<"/", "period1">> >> }
AdaptationBaseUrls == { <<>>, << <<"video">> >> }
RepresentationBaseUrls == { <<>>, << <<"hd", "/">> >> }

Templates ==
    { NoTemplate,
      Some(SegmentTemplate(Some(<<"init.mp4">>), Some(<<"seg-$Number$.m4s">>))),
      Some(SegmentTemplate(NoUri, Some(<<"chunk-$Time$.m4s">>))) }

MpdRepresentations ==
    {MpdRepresentation(b, t) : b \in RepresentationBaseUrls, t \in Templates}

InitMpdUrls ==
    /\ wpc = "mpd-input"
    /\ \E mb \in MpdBaseUrls, pb \in PeriodBaseUrls, ab \in AdaptationBaseUrls,
          t \in Templates, reps \in SeqsUpTo(MpdRepresentations, MaxRepresentations) :
           doc_in = Mpd(mb, <<MpdPeriod(pb, <<MpdAdaptationSet(ab, t, reps)>>)>>)
    /\ doc_out = <<>>
    /\ doc_again = <<>>
    /\ track_type = "none"
    /\ CoreIdle /\ SesIdle /\ AdsIdle /\ DashIdle /\ RsIdle /\ GcIdle

RewriteDashUrls ==
    /\ wpc = "mpd-input"
    /\ doc_out' = rewrite_dash_urls(doc_in, RwSession, RwBaseUrl, RwOriginBase)
    /\ wpc' = "mpd-rewritten"
    /\ UNCHANGED <<doc_in, doc_again, track_type, notRw>>

NextMpdUrls == RewriteDashUrls

SpecMpdUrls == InitMpdUrls /\ [][NextMpdUrls]_vars

(***************************************************************************)
(* Claims about the CUE detector (hls/cue.rs).                             *)
(***************************************************************************)
\* the unknown tags of a playlist in document order, each with its segment index
RECURSIVE TagStream(_, _)
TagStream(segments, i) ==
    IF i > Len(segments) THEN <<>>
    ELSE [k \in 1..Len(segments[i].unknown_tags) |->
             [index |-> i - 1, tag |-> segments[i].unknown_tags[k]]]
         \o TagStream(segments, i + 1)

CueOutAt(ev, p) == parse_cue_out(ev[p].tag.tag, ev[p].tag.has_rest, ev[p].tag.rest)
IsCueOutAt(ev, p) == CueOutAt(ev, p).some
IsCueInAt(ev, p) == ev[p].tag.tag \in {"X-CUE-IN", "CUE-IN"}

\* a break is open just before position p: some earlier CUE-OUT has no CUE-IN since
OpenBefore(ev, p) ==
    \E o \in 1..(p - 1) : IsCueOutAt(ev, o) /\ \A q \in (o + 1)..(p - 1) : ~IsCueInAt(ev, q)

\* index of the first CUE-IN after position p, or the segment count
FirstCueInAfter(ev, p, count) ==
    IF \E q \in (p + 1)..Len(ev) : IsCueInAt(ev, q)
    THEN ev[CHOOSE q \in (p + 1)..Len(ev) :
                /\ IsCueInAt(ev, q)
                /\ \A r \in (p + 1)..(q - 1) : ~IsCueInAt(ev, r)].index
    ELSE count

RECURSIVE ExpectedBreaks(_, _, _)
ExpectedBreaks(ev, p, count) ==
    IF p > Len(ev) THEN <<>>
    ELSE (IF IsCueOutAt(ev, p) /\ ~OpenBefore(ev, p)
          THEN <<AdBreak(ev[p].index, FirstCueInAfter(ev, p, count), CueOutAt(ev, p).val)>>
          ELSE <<>>)
         \o ExpectedBreaks(ev, p + 1, count)

\* C1: the emitted AdBreaks are exactly the (start, end, duration) triples of the
\* CUE-OUTs seen while no break is open, each ended by the first later CUE-IN or by
\* the segment count; a CUE-OUT inside an open break, a CUE-IN with no open break
\* and every CUE-OUT-CONT change nothing.
C1_CueDetectorCorrect ==
    hpc # "parsed" =>
        ad_breaks = ExpectedBreaks(TagStream(playlist, 1), 1, Len(playlist))

\* detection ran on a playlist with a nested CUE-OUT, a stray CUE-IN and a CONT
C1_Witness ==
    LET ev == TagStream(playlist, 1)
    IN /\ hpc = "detected"
       /\ Len(ad_breaks) >= 1
       /\ \E p \in 1..Len(ev) : IsCueOutAt(ev, p) /\ OpenBefore(ev, p)
       /\ \E p \in 1..Len(ev) : IsCueInAt(ev, p) /\ ~OpenBefore(ev, p)
       /\ \E p \in 1..Len(ev) : is_cue_out_cont(ev[p].tag.tag)

\* C2: every emitted AdBreak has start_index < end_index <= segment count.
C2_BreakWindowBounds ==
    hpc # "parsed" =>
        \A b \in 1..Len(ad_breaks) :
            /\ ad_breaks[b].start_index < ad_breaks[b].end_index
            /\ ad_breaks[b].end_index <= Len(playlist)

(***************************************************************************)
(* Claims about the interleaver (ad/interleaver.rs).                       *)
(***************************************************************************)
HasAds(b) == ad_segments_per_break[b] # <<>>
WindowLen(b) == ad_breaks[b].end_index - ad_breaks[b].start_index
Breaks == 1..Len(ad_breaks)
AdBreaksWithAds == {b \in Breaks : HasAds(b)}
IsAd(seg) == seg.uri[1] = "ad"
TotalAds == SumSeq([b \in Breaks |-> Len(ad_segments_per_break[b])])
Interleaved == hpc = "interleaved" /\ ad_breaks # <<>>

\* the windows of the breaks are non-empty and no break starts where another ends
WindowsApart ==
    /\ \A b \in Breaks : ad_breaks[b].start_index < ad_breaks[b].end_index
    /\ \A a, b \in Breaks : a < b => ad_breaks[a].end_index < ad_breaks[b].start_index

\* C3 as stated: |out| = (|in| - sum(end - start)) + sum |ads| + #(end < |in|, ads > 0),
\* taken on breaks that all have ads and whose windows are non-empty and apart
C3_CountAsStated ==
    (Interleaved /\ WindowsApart /\ AdBreaksWithAds = Breaks) =>
        Len(out_segments) =
            (Len(playlist) - SumSeq([b \in Breaks |-> WindowLen(b)])) + TotalAds
            + Cardinality({b \in AdBreaksWithAds : ad_breaks[b].end_index < Len(playlist)})

\* the ad-bearing breaks that start where the previous ad-bearing break ended
AbutPrevious ==
    {b \in AdBreaksWithAds :
        \E a \in AdBreaksWithAds :
            /\ a < b
            /\ \A c \in AdBreaksWithAds : ~(a < c /\ c < b)
            /\ ad_breaks[a].end_index = ad_breaks[b].start_index}

\* C3 amended: for breaks as the detector emits them, |out| = |in| - (windows of the
\* breaks that have ads) + sum |ads| + #(ad-bearing breaks that start where the
\* previous ad-bearing break ended); the content segment after a run adds nothing.
C3_CountAmended ==
    Interleaved =>
        Len(out_segments) =
            (Len(playlist)
                - SumSeq([b \in Breaks |-> IF HasAds(b) THEN WindowLen(b) ELSE 0]))
            + TotalAds + Cardinality(AbutPrevious)

\* an interleaved playlist with an ad-bearing break that ends before the last
\* segment, a break without ads and a non-empty window
C3_Witness ==
    /\ Interleaved
    /\ \E b \in AdBreaksWithAds :
           ad_breaks[b].end_index < Len(playlist) /\ WindowLen(b) > 0
    /\ \E b \in Breaks : ~HasAds(b) /\ WindowLen(b) > 0

\* C4: in the output every ad run starts with discontinuity = TRUE, its other ad
\* segments have discontinuity = FALSE, and the content segment right after the
\* run has discontinuity = TRUE.
C4_DiscontinuityBracketing ==
    hpc = "interleaved" =>
        \A p \in 1..Len(out_segments) :
            IsAd(out_segments[p]) =>
                /\ out_segments[p].discontinuity
                       = (p = 1 \/ ~IsAd(out_segments[p - 1]))
                /\ (p < Len(out_segments) /\ ~IsAd(out_segments[p + 1]))
                       => out_segments[p + 1].discontinuity

\* an output with a run of two ads followed by a content segment
C4_Witness ==
    /\ hpc = "interleaved"
    /\ \E p \in 1..(Len(out_segments) - 2) :
           /\ IsAd(out_segments[p]) /\ IsAd(out_segments[p + 1])
           /\ ~IsAd(out_segments[p + 2])

Occurrences(uri) == Cardinality({p \in 1..Len(out_segments) : out_segments[p].uri = uri})

InAdWindow(i) ==
    \E b \in AdBreaksWithAds : ad_breaks[b].start_index <= i /\ i < ad_breaks[b].end_index

\* C5: with the detector's breaks, an original segment inside the window of a break
\* that has ads is absent from the output, every other original segment occurs
\* once, and the original segments keep their order.
C5_ReplacesExactlyWindows ==
    Interleaved =>
        /\ \A i \in 0..(Len(playlist) - 1) :
               Occurrences(ContentUri(i)) = IF InAdWindow(i) THEN 0 ELSE 1
        /\ \A p, q \in 1..Len(out_segments) :
               (p < q /\ ~IsAd(out_segments[p]) /\ ~IsAd(out_segments[q]))
                   => out_segments[p].uri[2] < out_segments[q].uri[2]

(***************************************************************************)
(* Claims about the origin URL validator.                                  *)
(***************************************************************************)
\* the leading 24 bits of an IPv4 address
High24(ip) == (ip[1] * 256 + ip[2]) * 256 + ip[3]

\* ip lies in base/len, for a prefix length of at most 24 bits or of all 32
InCidr(ip, base, len) ==
    IF len <= 24
    THEN High24(ip) \div (2 ^ (24 - len)) = High24(base) \div (2 ^ (24 - len))
    ELSE ip = base

\* the IPv4 block list of the validator's contract
ListedV4Blocks ==
    { <<<<0, 0, 0, 0>>, 8>>, <<<<10, 0, 0, 0>>, 8>>, <<<<100, 64, 0, 0>>, 10>>,
      <<<<127, 0, 0, 0>>, 8>>, <<<<169, 254, 0, 0>>, 16>>, <<<<172, 16, 0, 0>>, 12>>,
      <<<<192, 0, 0, 0>>, 24>>, <<<<192, 0, 2, 0>>, 24>>, <<<<192, 168, 0, 0>>, 16>>,
      <<<<198, 18, 0, 0>>, 15>>, <<<<198, 51, 100, 0>>, 24>>, <<<<203, 0, 113, 0>>, 24>>,
      <<<<240, 0, 0, 0>>, 4>>, <<<<255, 255, 255, 255>>, 32>> }

ListedV4(ip) == \E blk \in ListedV4Blocks : InCidr(ip, blk[1], blk[2])

V6Mapped(s) == (\A i \in 1..5 : s[i] = 0) /\ s[6] = 65535
V6Compatible(s) == \A i \in 1..6 : s[i] = 0
V6Nat64WellKnown(s) == s[1] = 100 /\ s[2] = 65435 /\ \A i \in 3..6 : s[i] = 0
V6Nat64LocalUse(s) == s[1] = 100 /\ s[2] = 65435 /\ s[3] = 1

\* the IPv6 block list of the contract; an embedded IPv4 is the low 32 bits
ListedV6(s) ==
    \/ s = ZeroV6
    \/ s = <<0, 0, 0, 0, 0, 0, 0, 1>>
    \/ s[1] \div 64 = 65152 \div 64
    \/ s[1] \div 512 = 64512 \div 512
    \/ (s[1] = 8193 /\ s[2] = 3512)
    \/ /\ V6Mapped(s) \/ V6Compatible(s) \/ V6Nat64WellKnown(s) \/ V6Nat64LocalUse(s)
       /\ ListedV4(LowV4(s))

Rejected == verdict.ok = FALSE /\ verdict.error = "InvalidOrigin"

\* C6: for an http(s) URL, an IPv4 literal is refused with InvalidOrigin exactly
\* when it lies in a listed range (so the addresses just outside are accepted),
\* and an IPv6 literal that is listed, or that embeds a listed IPv4 in mapped,
\* compatible or NAT64 form, is refused.
C6_SsrfRefusal ==
    (upc = "validated" /\ url.parse_ok /\ url.scheme \in {"http", "https"}) =>
        /\ url.host = "ipv4" => (Rejected <=> ListedV4(url.v4))
        /\ url.host = "ipv4" => (verdict.ok <=> ~ListedV4(url.v4))
        /\ (url.host = "ipv6" /\ ListedV6(url.v6)) => Rejected

\* a NAT64 local-use literal embedding a listed IPv4 was validated and refused
C6_Witness ==
    /\ upc = "validated"
    /\ url.host = "ipv6" /\ V6Nat64LocalUse(url.v6) /\ ListedV4(LowV4(url.v6))
    /\ Rejected

C8_EveryHandlerValidatesOrigin ==
    req.has_origin =>
        \A k \in 1..Len(upstream) : validate_origin_url(upstream[k].origin).ok

(***************************************************************************)
(* Claims about quartile tracking.                                         *)
(***************************************************************************)
\* C9: once the segments 0 .. n-1 of an ad (n >= 1) have been served, each of
\* start, firstQuartile, midpoint, thirdQuartile and complete has fired exactly
\* once, none fires more than once on the way; with n = 1 segment 0 fires all
\* five, and with n = 2 segment 1 fires the three quartiles and complete.
C9_QuartileCoverage ==
    /\ \A e \in EventNames : fired[e] <= 1
    /\ (total_segments >= 1 /\ next_segment = total_segments)
           => \A e \in EventNames : fired[e] = 1
    /\ (total_segments = 1 /\ next_segment = 1) => Names(last_fired) = EventNames
    /\ (total_segments = 2 /\ next_segment = 2)
           => Names(last_fired) = EventNames \ {"start"}

\* an ad of five segments, where firstQuartile falls exactly on a segment, is served
C9_Witness ==
    /\ total_segments = 5 /\ next_segment = total_segments
    /\ \A e \in EventNames : fired[e] = 1

(***************************************************************************)
(* Claims about the VAST wrapper chain.                                    *)
(***************************************************************************)
\* C10: fetch_vast started at depth 0 returns no creative found more than
\* max_wrapper_depth wrapper hops away, never has more than max_wrapper_depth + 2
\* calls active, and returns - also when every wrapper points back at the
\* tag URI that was just fetched.
C10_WrapperDepthBound ==
    /\ [](/\ Len(vstack) <= max_wrapper_depth + 2
          /\ \A k \in 1..Len(vstack) :
                 /\ vstack[k].depth = k - 1
                 /\ vstack[k].fetched => vstack[k].depth <= max_wrapper_depth
                 /\ \A c \in 1..Len(vstack[k].creatives) :
                        vstack[k].creatives[c].hops <= max_wrapper_depth
          /\ \A c \in 1..Len(vresult.val) : vresult.val[c].hops <= max_wrapper_depth)
    /\ <>(vpc = "done")

\* a chain of wrappers that all point at the same tag URI has reached the depth
\* check: the call one past the maximum depth is active
C10_Witness ==
    /\ vpc = "running"
    /\ Len(vstack) = max_wrapper_depth + 2
    /\ \A k \in 1..Len(vstack) : vstack[k].url = "tag-a"

\* the outermost call returned creatives although a call was cut off by the check
C10_WitnessDone ==
    /\ vpc = "done" /\ vguard
    /\ vresult.some /\ Len(vresult.val) > max_wrapper_depth

(***************************************************************************)
(* Claims about the session manager.                                       *)
(***************************************************************************)
\* C11 as stated: at every time later than last_accessed + ttl, get(id) of a
\* session not touched since is None.
C11_GoneRightAfterTtl ==
    \A id \in SessionIds :
        get(sessions, id).some => now <= sessions[id].last_accessed + session_ttl

\* C11 amended: once a cleanup_expired run has read a clock at or past
\* last_accessed + ttl of a session, get(id) is None until the id is created again.
C11_GoneAfterSweep ==
    \A id \in expired_seen : ~get(sessions, id).some

\* a sweep has removed an expired session and kept one that was touched in time
C11_Witness ==
    /\ session_ttl > 0
    /\ "s1" \in expired_seen /\ ~get(sessions, "s1").some
    /\ get(sessions, "s2").some
    /\ "s2" \notin expired_seen
    /\ sessions["s2"].last_accessed > sessions["s2"].created_at

\* C12: once a stitch request with session id s has been handled, the manager
\* holds a session s and session_count counts it.
C12_SessionCreatedOnRequest ==
    /\ \A id \in handled : get(sessions, id).some
    /\ session_count(sessions) >= Cardinality(handled)

(***************************************************************************)
(* Claims about the VAST provider's fallback and cache.                    *)
(***************************************************************************)
FetchCameToNothing == ~ad_call.fetched.some \/ ad_call.fetched.val = <<>>

SlateCount(duration, segment_duration) ==
    LET q == CeilQuotientAsUsize(duration, segment_duration)
    IN IF q.n < 1 THEN 1 ELSE q.n

\* C13: get_ad_segments never fails; when the VAST fetch failed or gave no creative
\* it returns, with a slate, ceil(duration / slate_segment_duration) (at least 1)
\* segments slate-seg-0.ts .. slate-seg-(k-1).ts and, without one, the empty
\* list; the playlist request completes with 200 either way.
C13_VastFailureRecovered ==
    ad_call.op = "get_ad_segments" =>
        /\ ~ad_out.panic
        /\ ad_out.status = 200
        /\ (FetchCameToNothing /\ ~slate.some) => ad_out.segments = <<>>
        /\ (FetchCameToNothing /\ slate.some) =>
               /\ Len(ad_out.segments)
                      = SlateCount(ad_call.duration, slate.val.segment_duration)
               /\ \A i \in 1..Len(ad_out.segments) :
                      ad_out.segments[i].uri = SlateName(i - 1)

\* C13 on break durations that are not infinite and a slate segment duration
\* that is not zero
C13_RecoveredOnFiniteDurations ==
    (ad_call.op = "get_ad_segments" /\ ~ad_call.duration.inf
        /\ (slate.some => slate.val.segment_duration.v # 0))
    => C13_VastFailureRecovered

\* C14: the cache never holds more entries than the hard cap, and after a sweep
\* no entry is older than the TTL.
C14_CacheBounded ==
    /\ Cardinality(DOMAIN ad_cache) <= cache_hard_cap
    /\ ad_call.op = "cleanup_cache" =>
           \A k \in DOMAIN ad_cache : now - ad_cache_inserted_at[k] <= session_ttl

\* C15: right after a get_ad_segments call for session s that resolved k >= 1
\* creatives, the cache keys of s are exactly break-0-seg-0 .. break-0-seg-(k-1)
\* and hold the creative URLs of that call.
C15_CallReplacesEntries ==
    (ad_call.op = "get_ad_segments" /\ ~FetchCameToNothing) =>
        LET s == ad_call.session_id
            creatives == ad_call.fetched.val
        IN /\ {k \in DOMAIN ad_cache : k[1] = s}
                  = {cache_key(s, AdName(0, i)) : i \in 0..(Len(creatives) - 1)}
           /\ \A i \in 0..(Len(creatives) - 1) :
                  ad_cache[cache_key(s, AdName(0, i))].url = creatives[i + 1].url

(***************************************************************************)
(* Claims about the stitching mode and the interstitial injection.         *)
(***************************************************************************)
HasInterstitial(seg) == seg.daterange.some /\ seg.daterange.val.class = InterstitialClass

\* C16: with detected breaks, SGAI mode keeps the segments (count, order,
\* discontinuity flags), inserts no ad segment and leaves an interstitial
\* DateRange on each break's start segment; SSAI mode puts every ad of every break
\* into the output, the first of a break with a discontinuity, and attaches no
\* interstitial DateRange.
C16_ModeSelectsOneStrategy ==
    /\ hpc = "injected" =>
           /\ Len(out_segments) = Len(playlist)
           /\ \A k \in 1..Len(playlist) :
                  /\ out_segments[k].uri = playlist[k].uri
                  /\ out_segments[k].discontinuity = playlist[k].discontinuity
           /\ \A b \in 1..Len(ad_breaks) :
                  HasInterstitial(out_segments[ad_breaks[b].start_index + 1])
    /\ (hpc = "interleaved" /\ ad_breaks # <<>>) =>
           /\ stitching_mode = "Ssai"
           /\ \A k \in 1..Len(out_segments) : ~HasInterstitial(out_segments[k])
           /\ \A b \in 1..Len(ad_breaks) :
                  \A j \in 1..Len(ad_segments_per_break[b]) :
                      \E k \in 1..Len(out_segments) :
                          /\ out_segments[k].uri = AdUri(b - 1, j - 1)
                          /\ j = 1 => out_segments[k].discontinuity

\* C16 on playlists in which the first segment, every segment or no segment carries
\* a program date time
C16_ModeSelectsOnAnchoredPlaylists ==
    (playlist # <<>> /\ (playlist[1].program_date_time.some
                            \/ \A k \in 1..Len(playlist) : ~playlist[k].program_date_time.some))
    => C16_ModeSelectsOneStrategy

CueTagNames ==
    {"CUE-OUT", "CUE-OUT-CONT", "CUE-IN", "X-CUE-OUT", "X-CUE-OUT-CONT", "X-CUE-IN"}

NonCueTags(tags) == SelectSeq(tags, LAMBDA t : t.tag \notin CueTagNames)

\* C18: after inject_interstitials, for any break list, no unknown tag of any
\* segment is named CUE-OUT, CUE-OUT-CONT or CUE-IN, with or without X-, and the
\* other unknown tags of each segment are all still there, in order.
C18_InjectRemovesCueTags ==
    hpc \in {"sgai-injected", "injected"} =>
        /\ Len(out_segments) = Len(playlist)
        /\ \A k \in 1..Len(out_segments) :
               /\ \A t \in 1..Len(out_segments[k].unknown_tags) :
                      out_segments[k].unknown_tags[t].tag \notin CueTagNames
               /\ out_segments[k].unknown_tags = NonCueTags(playlist[k].unknown_tags)

\* an injection with a break past the last segment, on a playlist that carried
\* prefixed and unprefixed CUE tags and a tag that is not a CUE tag
C18_Witness ==
    /\ hpc = "sgai-injected"
    /\ \E b \in 1..Len(ad_breaks) : ad_breaks[b].start_index >= Len(playlist)
    /\ \E k \in 1..Len(playlist) :
           /\ \E t \in 1..Len(playlist[k].unknown_tags) :
                  playlist[k].unknown_tags[t].tag = "CUE-OUT"
           /\ out_segments[k].unknown_tags = <<ExtTag("X-CUSTOM", "abc")>>
    /\ \E k \in 1..Len(playlist) :
           \E t \in 1..Len(playlist[k].unknown_tags) :
               playlist[k].unknown_tags[t].tag = "X-CUE-IN"

(***************************************************************************)
(* Claims about the byte handlers.                                         *)
(***************************************************************************)
AttemptsMade == SelectSeq(attempt_log, LAMBDA e : e # Backoff)
AttemptFailures == {"send_error", "status_error", "body_error"}

C17_BothFailed ==
    /\ req.handler = "segment"
    /\ attempt_log = <<"send_error", Backoff, "status_error">>
    /\ resp = Response(502, "OriginFetchError")

(***************************************************************************)
(* Claims about the DASH interleaver.                                      *)
(***************************************************************************)
BreaksWithAds ==
    {b \in 1..Len(dash_ad_breaks) : b <= Len(dash_ad_segments) /\ dash_ad_segments[b] # <<>>}

\* C19: when there is one ad list per break, the MPD interleave_ads_mpd returns
\* has as many Periods as the MPD it was given plus one for each break whose ad
\* list is not empty, also for a period_index past the last Period and for
\* several breaks in one Period.
C19_DashPeriodCount ==
    (dpc = "interleaved" /\ Len(dash_ad_breaks) = Len(dash_ad_segments)) =>
        Len(mpd_out) = Len(mpd) + Cardinality(BreaksWithAds)

\* a returned MPD with two breaks with ads in one Period and one with a
\* period_index past the last Period
C19_Witness ==
    /\ dpc = "interleaved"
    /\ mpd # <<>>
    /\ Cardinality(BreaksWithAds) >= 2
    /\ \E b \in BreaksWithAds : dash_ad_breaks[b].period_index >= Len(mpd)
    /\ Len(mpd_out) = Len(mpd) + Cardinality(BreaksWithAds)

\* a returned MPD with two breaks with ads that signal in the same Period
C19_SamePeriod ==
    /\ dpc = "interleaved"
    /\ \E b, c \in BreaksWithAds :
           /\ b # c
           /\ dash_ad_breaks[b].period_index = dash_ad_breaks[c].period_index
           /\ dash_ad_breaks[b].period_index < Len(mpd)

Triples(period) ==
    {<<period.adaptations[a].contentType, period.adaptations[a].mimeType,
       period.adaptations[a].lang>> : a \in 1..Len(period.adaptations)}

IsAdPeriod(period) == period.id.some /\ period.id.val[1] = "ad"

\* the Periods at which the ad Period of break b (1-based) sits in the output
AdPeriodPositions(b) ==
    {k \in 1..Len(mpd_out) : mpd_out[k].id = Some(<<"ad", b - 1>>)}

\* the last Period before position k that is not an ad Period, 0 if none
PrecedingContent(k) ==
    LET before == {j \in 1..(k - 1) : ~IsAdPeriod(mpd_out[j])}
    IN IF before = {} THEN 0 ELSE CHOOSE j \in before : \A i \in before : i <= j

\* C20: each ad Period of the returned MPD belongs to one break with ads and each
\* such break has one ad Period; its (contentType, mimeType, lang) triples are
\* those of the Period at the break's period_index, which is the content Period
\* before it; where that Period has no AdaptationSet, or there is no such Period,
\* the ad Period has the single AdaptationSet video, video/mp4 without lang.
C20_AdPeriodMirrors ==
    (dpc = "interleaved" /\ Len(dash_ad_breaks) = Len(dash_ad_segments)) =>
        /\ \A k \in 1..Len(mpd_out) :
               IsAdPeriod(mpd_out[k]) => \E b \in BreaksWithAds : k \in AdPeriodPositions(b)
        /\ \A b \in BreaksWithAds :
               LET period_index == dash_ad_breaks[b].period_index
                   content == IF period_index < Len(mpd)
                              THEN mpd[period_index + 1].adaptations ELSE <<>>
               IN /\ Cardinality(AdPeriodPositions(b)) = 1
                  /\ \A k \in AdPeriodPositions(b) :
                         /\ period_index < Len(mpd) =>
                                mpd_out[PrecedingContent(k)] = mpd[period_index + 1]
                         /\ content # <<>> =>
                                /\ Triples(mpd_out[k]) = Triples(mpd[period_index + 1])
                                /\ Len(mpd_out[k].adaptations) = Len(content)
                         /\ content = <<>> =>
                                /\ Len(mpd_out[k].adaptations) = 1
                                /\ Triples(mpd_out[k]) =
                                       {<<Some("video"), Some("video/mp4"), NoStr>>}

\* a returned MPD in which one ad Period mirrors video plus two audio languages
\* and another, for a Period without AdaptationSets, carries the fallback
C20_Witness ==
    /\ dpc = "interleaved"
    /\ \E b \in BreaksWithAds : \E k \in AdPeriodPositions(b) :
           /\ dash_ad_breaks[b].period_index < Len(mpd)
           /\ Triples(mpd_out[k]) = Triples(ContentPeriods(<<<<VideoSet, AudioSet("en"), AudioSet("sv")>>>>)[1])
    /\ \E b \in BreaksWithAds : \E k \in AdPeriodPositions(b) :
           /\ dash_ad_breaks[b].period_index < Len(mpd)
           /\ mpd[dash_ad_breaks[b].period_index + 1].adaptations = <<>>
           /\ Triples(mpd_out[k]) = {<<Some("video"), Some("video/mp4"), NoStr>>}

\* interleave_ads_mpd did not return: an ad list's durations sum to less than zero
DashPanicked == dpc = "panicked"

\* the positions (1-based) of the Periods of the returned MPD that are not ad Periods
ContentPositions == {k \in 1..Len(mpd_out) : ~IsAdPeriod(mpd_out[k])}

\* the Periods of the returned MPD that are not ad Periods, in their order
RECURSIVE ContentOf(_)
ContentOf(periods) ==
    IF periods = <<>> THEN <<>>
    ELSE IF IsAdPeriod(periods[1]) THEN ContentOf(Tail(periods))
    ELSE <<periods[1]>> \o ContentOf(Tail(periods))

\* the Period count when the loop reaches break b: the higher breaks are done
CountWhenReached(b) == Len(mpd) + Cardinality({c \in BreaksWithAds : c > b})

InRangeWhenReached(b) == dash_ad_breaks[b].period_index + 1 <= CountWhenReached(b)

\* C25: with the breaks in detector order, the returned MPD holds the Periods of
\* the given MPD in their order; the ad Period of break i whose insert position
\* is within the Period count sits at index period_index + 1 + (number of lower
\* breaks with ads), which, when the signal Period exists, is directly after the
\* signal Period and the ad Periods of the lower breaks of that Period; the ad
\* Period of a break whose insert position is past the count was appended: all
\* content Periods and all ad Periods of higher breaks come before it.
C25_DashInsertionOrder ==
    (dpc = "interleaved" /\ Len(dash_ad_breaks) = Len(dash_ad_segments)) =>
        /\ ContentOf(mpd_out) = mpd
        /\ \A b \in BreaksWithAds :
               LET period_index == dash_ad_breaks[b].period_index
                   lower == {c \in BreaksWithAds : c < b}
                   same == {c \in lower : dash_ad_breaks[c].period_index = period_index}
               IN IF InRangeWhenReached(b)
                  THEN /\ AdPeriodPositions(b) = {period_index + 1 + Cardinality(lower) + 1}
                       /\ period_index < Len(mpd) =>
                              \A k \in AdPeriodPositions(b) :
                                  /\ mpd_out[k - Cardinality(same) - 1] = mpd[period_index + 1]
                                  /\ \A c \in same : \A j \in AdPeriodPositions(c) :
                                         k - Cardinality(same) <= j /\ j < k
                  ELSE \A k \in AdPeriodPositions(b) :
                           /\ \A j \in ContentPositions : j < k
                           /\ \A c \in BreaksWithAds : c > b =>
                                  \A j \in AdPeriodPositions(c) : j < k

\* a returned MPD with two Periods, two breaks with ads that signal in the first
\* Period, so that the second break's ad Period sits behind the first one's
C25_Witness ==
    /\ dpc = "interleaved"
    /\ Len(mpd) = 2
    /\ BreaksWithAds = {1, 2}
    /\ dash_ad_breaks[1].period_index = 0
    /\ dash_ad_breaks[2].period_index = 0
    /\ AdPeriodPositions(1) = {2}
    /\ AdPeriodPositions(2) = {3}
    /\ mpd_out[4] = mpd[2]

\* a returned MPD where a break past the last Period was appended at the end
C25_Appended ==
    /\ dpc = "interleaved"
    /\ mpd # <<>>
    /\ \E b \in BreaksWithAds :
           /\ ~InRangeWhenReached(b)
           /\ AdPeriodPositions(b) = {Len(mpd_out)}

(***************************************************************************)
(* Claims about URL rewriting.                                             *)
(***************************************************************************)
\* C21: rewrite_content_urls applied to its own output (same session_id, base_url
\* and origin_base) returns that output unchanged, every URI of the output
\* contains /stitch/, and an ad URI of the interleaver passes through the first
\* application unchanged.
C21_RewriteIdempotent ==
    /\ wpc \in {"rewritten", "again"} =>
           /\ Len(doc_out) = Len(doc_in)
           /\ \A k \in 1..Len(doc_out) :
                  /\ Contains(doc_out[k], <<"/", "stitch", "/">>)
                  /\ doc_in[k] = AdProxyUri(RwBaseUrl, RwSession, 0, 0) => doc_out[k] = doc_in[k]
    /\ wpc = "again" => doc_again = doc_out

\* a playlist with a relative URI, an absolute URI and an ad URI was rewritten twice
C21_Witness ==
    /\ wpc = "again"
    /\ \E i, j, k \in 1..Len(doc_in) :
           /\ doc_in[i] = <<"seg0.ts">> /\ doc_out[i] # doc_in[i]
           /\ doc_in[j] = <<"https:", "/", "/", "cdn", "/", "live", "/", "seg2.ts">>
           /\ doc_out[j] # doc_in[j]
           /\ doc_in[k] = AdProxyUri(RwBaseUrl, RwSession, 0, 0)

\* the URI the claim gives for a variant or rendition whose absolute URL is given
ExpectedMasterUri(absolute, track) ==
    RwBaseUrl \o <<"/", "stitch", "/", RwSession, "/", "playlist.m3u8", "?", "origin=">>
        \o absolute \o (IF track = "" THEN <<>> ELSE <<"&", "track=", track>>)

ExpectedAbsolute(uri) ==
    IF uri[1] \in {"http:", "https:"} THEN uri ELSE RwOriginBase \o <<"/">> \o uri

\* C23: after rewrite_master_urls every variant URI is
\* {base_url}/stitch/{session_id}/playlist.m3u8?origin={absolute}, every audio
\* rendition URI is that with &track=audio and every subtitle rendition URI that
\* with &track=subtitles; a request for a rewritten subtitle rendition reaches
\* the playlist handler with track_type subtitles.
C23_MasterRewriteTracks ==
    /\ (wpc \in {"rewritten", "requested"} /\ "variants" \in DOMAIN doc_out) =>
           /\ \A v \in 1..Len(doc_out.variants) :
                  doc_out.variants[v].uri =
                      ExpectedMasterUri(ExpectedAbsolute(doc_in.variants[v].uri), "")
           /\ \A a \in 1..Len(doc_out.alternatives) :
                  doc_in.alternatives[a].uri.some =>
                      doc_out.alternatives[a].uri.val =
                          ExpectedMasterUri(
                              ExpectedAbsolute(doc_in.alternatives[a].uri.val),
                              CASE doc_in.alternatives[a].media_type = "Audio" -> "audio"
                                [] doc_in.alternatives[a].media_type = "Subtitles" -> "subtitles"
                                [] OTHER -> "")
    /\ (wpc = "requested" /\ doc_in.alternatives[doc_again[1]].media_type = "Subtitles")
           => track_type = "subtitles"

\* C23 without the track parameter: variants and renditions are rewritten to the
\* playlist endpoint with the absolute origin
C23_MasterRewriteWithoutTrack ==
    (wpc \in {"rewritten", "requested"} /\ "variants" \in DOMAIN doc_out) =>
        /\ \A v \in 1..Len(doc_out.variants) :
               doc_out.variants[v].uri =
                   ExpectedMasterUri(ExpectedAbsolute(doc_in.variants[v].uri), "")
        /\ \A a \in 1..Len(doc_out.alternatives) :
               doc_in.alternatives[a].uri.some =>
                   doc_out.alternatives[a].uri.val =
                       ExpectedMasterUri(ExpectedAbsolute(doc_in.alternatives[a].uri.val), "")

(***************************************************************************)
(* Claims about impression tracking.                                       *)
(***************************************************************************)
ImpressionsDispatched == SelectSeq(beacons, LAMBDA b : b.event = "impression")

\* C22: over any sequence of ad-segment requests for one VAST ad, the ad's
\* impression beacons have been dispatched once each as soon as segment 0 has
\* been served, and not at all before that; serving another segment dispatches
\* none.
C22_ImpressionsOnceOnFirstSegment ==
    /\ "break-0-seg-0.ts" \in ad_served =>
           ImpressionsDispatched = fire_impressions(<<>>, ImpressionUrls)
    /\ "break-0-seg-0.ts" \notin ad_served => ImpressionsDispatched = <<>>

\* no ad request dispatches an impression beacon
C22_NoImpressionEver == ImpressionsDispatched = <<>>

\* segment 0 and segment 1 of the ad have both been served
C22_BothSegmentsServed == ad_served = {"break-0-seg-0.ts", "break-0-seg-1.ts"}


(***************************************************************************)
(* C24: CUE-OUT duration validation.  Once detect_ad_breaks has run, no    *)
(* AdBreak it emitted has a negative or NaN duration: a CUE-OUT tag with   *)
(* such a duration, bare or as DURATION=<n>, opens no break.               *)
(***************************************************************************)
C24_NoNegativeOrNaNBreak ==
    hpc # "parsed" =>
        \A b \in 1..Len(ad_breaks) :
            /\ ~ad_breaks[b].duration.nan
            /\ (ad_breaks[b].duration.inf \/ ad_breaks[b].duration.v >= 0)

\* the breaks emitted for a playlist with such a tag carry the tag's value
C24_InvalidDurationKept ==
    /\ hpc # "parsed"
    /\ \E b \in 1..Len(ad_breaks) :
           ad_breaks[b].duration.nan \/ ad_breaks[b].duration.v < 0


(***************************************************************************)
(* Claims about the START-DATE of injected interstitials.                  *)
(***************************************************************************)
\* the DateRange the segment at start_index of `after` should carry for break b
\* (1-based) of `breaks`, read off the dated playlist `dated`
InterstitialAt(dated, after, breaks, b) ==
    LET start_index == breaks[b].start_index
        dr == after[start_index + 1].daterange
    IN /\ dr.some
       /\ dr.val.id = <<"ad-break", b - 1>>
       /\ dr.val.class = "com.apple.hls.interstitial"
       /\ \E a \in 0..start_index :
              /\ dated[a + 1].program_date_time.some
              /\ \A j \in (a + 1)..start_index : ~dated[j + 1].program_date_time.some
              /\ dr.val.start_date =
                     dated[a + 1].program_date_time.val
                         + SumSeq([j \in 1..(start_index - a) |-> DurationMs(dated[a + j].duration)])

\* C26: when inject_interstitials runs on the playlist ensure_program_date_time
\* returned, every break whose start_index names a segment leaves on that segment
\* a DateRange with id ad-break-{i}, the interstitial class and the START-DATE of
\* the nearest dated segment at or before it plus the durations in between,
\* whether no, every or only some segments of the playlist carried a date.
C26_StartDateForEveryBreak ==
    [][(hpc = "sgai-ensured" /\ hpc' = "sgai-injected") =>
          \A b \in 1..Len(ad_breaks) :
              ad_breaks[b].start_index < Len(playlist) =>
                  InterstitialAt(out_segments, out_segments', ad_breaks, b)]_vars

\* the same for the breaks that have a dated segment at or before them and no
\* later break on the same segment
C26_StartDateWhereAnchored ==
    [][(hpc = "sgai-ensured" /\ hpc' = "sgai-injected") =>
          \A b \in 1..Len(ad_breaks) :
              (/\ ad_breaks[b].start_index < Len(playlist)
               /\ \E a \in 0..ad_breaks[b].start_index : out_segments[a + 1].program_date_time.some
               /\ \A c \in (b + 1)..Len(ad_breaks) :
                      ad_breaks[c].start_index # ad_breaks[b].start_index)
              => InterstitialAt(out_segments, out_segments', ad_breaks, b)]_vars

\* an injection after ensure_program_date_time where only the last segment was
\* dated and a break starting on the first segment got no DateRange
C26_BreakBeforeFirstDate ==
    /\ hpc = "sgai-injected"
    /\ Len(playlist) >= 2
    /\ ~playlist[1].program_date_time.some
    /\ playlist[Len(playlist)].program_date_time.some
    /\ \E b \in 1..Len(ad_breaks) : ad_breaks[b].start_index = 0
    /\ ~out_segments[1].daterange.some


(***************************************************************************)
(* Claims about the DASH URL rewriter.                                     *)
(***************************************************************************)
\* the template `original` rewritten once against `origin`
RewrittenOnce(template, original, origin) ==
    /\ template.some = original.some
    /\ original.some =>
           /\ template.val.initialization.some = original.val.initialization.some
           /\ template.val.media.some = original.val.media.some
           /\ original.val.initialization.some =>
                  template.val.initialization.val =
                      SegmentProxyUri(RwBaseUrl, RwSession, original.val.initialization.val, origin)
           /\ original.val.media.some =>
                  template.val.media.val =
                      SegmentProxyUri(RwBaseUrl, RwSession, original.val.media.val, origin)

\* the effective bases of the one AdaptationSet of doc_in and of its Representation r
AdaptationBaseOf(doc) ==
    LevelBase(LevelBase(LevelBase(RwOriginBase, doc.base_url), doc.periods[1].BaseURL),
              doc.periods[1].adaptations[1].BaseURL)

RepresentationBaseOf(doc, r) ==
    LevelBase(AdaptationBaseOf(doc), doc.periods[1].adaptations[1].representations[r].BaseURL)

\* C27: after rewrite_dash_urls every BaseURL list of the four levels is empty,
\* every Representation's SegmentTemplate is the original rewritten once against
\* the base composed MPD, Period, AdaptationSet, Representation, and the
\* AdaptationSet's SegmentTemplate is the original rewritten once against the
\* composed base (that of the AdaptationSet or of one of its Representations),
\* however many Representations the AdaptationSet has.
C27_EachTemplateRewrittenOnce ==
    wpc = "mpd-rewritten" =>
        LET set_in == doc_in.periods[1].adaptations[1]
            set_out == doc_out.periods[1].adaptations[1]
        IN /\ doc_out.base_url = <<>>
           /\ doc_out.periods[1].BaseURL = <<>>
           /\ set_out.BaseURL = <<>>
           /\ Len(set_out.representations) = Len(set_in.representations)
           /\ \A r \in 1..Len(set_in.representations) :
                  /\ set_out.representations[r].BaseURL = <<>>
                  /\ RewrittenOnce(set_out.representations[r].SegmentTemplate,
                                   set_in.representations[r].SegmentTemplate,
                                   RepresentationBaseOf(doc_in, r))
           /\ \E origin \in {AdaptationBaseOf(doc_in)}
                               \cup {RepresentationBaseOf(doc_in, r) :
                                        r \in 1..Len(set_in.representations)} :
                  RewrittenOnce(set_out.SegmentTemplate, set_in.SegmentTemplate, origin)

\* the same for the BaseURL lists and the Representations' own templates, and for
\* the AdaptationSet's template when the set has exactly one Representation
C27_RepresentationTemplatesOnce ==
    wpc = "mpd-rewritten" =>
        LET set_in == doc_in.periods[1].adaptations[1]
            set_out == doc_out.periods[1].adaptations[1]
        IN /\ doc_out.base_url = <<>>
           /\ doc_out.periods[1].BaseURL = <<>>
           /\ set_out.BaseURL = <<>>
           /\ \A r \in 1..Len(set_in.representations) :
                  /\ set_out.representations[r].BaseURL = <<>>
                  /\ RewrittenOnce(set_out.representations[r].SegmentTemplate,
                                   set_in.representations[r].SegmentTemplate,
                                   RepresentationBaseOf(doc_in, r))
           /\ Len(set_in.representations) = 1 =>
                  RewrittenOnce(set_out.SegmentTemplate, set_in.SegmentTemplate,
                                RepresentationBaseOf(doc_in, 1))

\* an AdaptationSet with a SegmentTemplate and two Representations: its media
\* attribute was wrapped twice
C27_SetTemplateWrappedTwice ==
    /\ wpc = "mpd-rewritten"
    /\ Len(doc_in.periods[1].adaptations[1].representations) = 2
    /\ doc_in.periods[1].adaptations[1].SegmentTemplate.some
    /\ doc_out.periods[1].adaptations[1].SegmentTemplate.val.media.val =
           SegmentProxyUri(RwBaseUrl, RwSession,
               SegmentProxyUri(RwBaseUrl, RwSession,
                   doc_in.periods[1].adaptations[1].SegmentTemplate.val.media.val,
                   RepresentationBaseOf(doc_in, 1)),
               RepresentationBaseOf(doc_in, 2))

\* an AdaptationSet with a SegmentTemplate and no Representation: left as it was
C27_SetTemplateUntouched ==
    /\ wpc = "mpd-rewritten"
    /\ doc_in.periods[1].adaptations[1].representations = <<>>
    /\ doc_in.periods[1].adaptations[1].SegmentTemplate.some
    /\ doc_out.periods[1].adaptations[1].SegmentTemplate =
           doc_in.periods[1].adaptations[1].SegmentTemplate


(***************************************************************************)
(* Claims about ad URI resolution.                                         *)
(***************************************************************************)
\* the ad URIs of the playlists sent that the last serve_ad request named
RequestedUris ==
    {e \in emitted : e.session_id = resolved.session_id /\ e.ad_name = resolved.ad_name}

\* C28: a serve_ad request for an ad URI that a playlist carried resolves, through
\* the provider that produced the break, to a URL (not None), and that URL is the
\* one of the creative obtained for that break and segment: for the static
\* provider, for VAST with one or several breaks, and for VAST falling back to slate.
C28_EmittedAdResolves ==
    resolved.some =>
        /\ resolved.url.some
        /\ \A e \in RequestedUris : resolved.url.val = e.creative

\* the same for the static provider alone
C28_StaticAdResolves ==
    (resolved.some /\ ad_provider = "static") =>
        /\ resolved.url.some
        /\ \A e \in RequestedUris : resolved.url.val = e.creative

\* VAST, one session, two breaks each with a creative: the URI of the second
\* break's first segment resolves to nothing
C28_SecondBreakUnresolved ==
    /\ resolved.some
    /\ ad_provider = "vast"
    /\ \A e \in emitted : e.session_id = resolved.session_id
    /\ resolved.ad_name = AdName(1, 0)
    /\ \E e \in RequestedUris : e.creative[1] = "creative"
    /\ ~resolved.url.some

\* VAST in slate fallback: the URI emitted for a slate segment resolves to nothing
C28_SlateUnresolved ==
    /\ resolved.some
    /\ ad_provider = "vast"
    /\ slate.some
    /\ \E e \in RequestedUris : e.creative[1] = "slate"
    /\ ~resolved.url.some

\* C29: when playlists of two sessions carry the same ad name with different
\* creative URLs, an ad request under one session is answered with that session's
\* creative URL, never with the other's.
C29_SessionIsolation ==
    resolved.some =>
        \A own \in RequestedUris : \A other \in emitted :
            (/\ other.session_id # own.session_id
             /\ other.ad_name = own.ad_name
             /\ other.creative # own.creative
             /\ own.creative[1] = "creative"
             /\ other.creative[1] = "creative")
            => /\ resolved.url.some
               /\ resolved.url.val = own.creative
               /\ resolved.url.val # other.creative

\* one break per session, each with its own creative: the request under one
\* session got the other session's creative URL
C29_OtherSessionsCreative ==
    /\ resolved.some
    /\ resolved.url.some
    /\ \A e \in emitted : e.ad_name[2] = 0
    /\ \E own \in RequestedUris : \E other \in emitted :
           /\ other.session_id # own.session_id
           /\ other.ad_name = own.ad_name
           /\ own.ad_name = AdName(0, 0)
           /\ own.creative = CreativeUrl("media-1")
           /\ other.creative = CreativeUrl("media-2")
           /\ resolved.url.val = other.creative


(***************************************************************************)
(* Claims about concurrent get_or_create.                                  *)
(***************************************************************************)
\* calls that have returned for one session id hold the same session
SameSessionReturned ==
    \A c, d \in Callers :
        (/\ callers[c].pc = "returned"
         /\ callers[d].pc = "returned"
         /\ callers[c].session_id = callers[d].session_id)
        => /\ callers[c].result.val.origin_url = callers[d].result.val.origin_url
           /\ callers[c].result.val.created_at = callers[d].result.val.created_at

\* a stored session is never replaced, and a call that returns for an id that is
\* stored returns the stored session
ExistingReturnedUnchanged ==
    /\ \A id \in DOMAIN sessions : id \in DOMAIN sessions' /\ sessions'[id] = sessions[id]
    /\ \A c \in Callers :
           (callers[c].pc # "returned" /\ callers'[c].pc = "returned"
               /\ callers'[c].session_id \in DOMAIN sessions)
           => callers'[c].result = Some(sessions[callers'[c].session_id])

\* C30: on both backends get_or_create is atomic per session id: under every
\* interleaving of concurrent calls for one new id one session is created and all
\* callers receive it (same origin_url and created_at), and a call for an existing
\* session returns it with origin_url, created_at and last_accessed unchanged.
C30_GetOrCreateAtomic ==
    /\ []SameSessionReturned
    /\ [][ExistingReturnedUnchanged]_vars

\* the same on the Memory backend alone
C30_MemoryGetOrCreateAtomic ==
    /\ [](backend = "Memory" => SameSessionReturned)
    /\ [][backend = "Memory" => ExistingReturnedUnchanged]_vars

\* a call for an existing session on the Valkey backend returns it as stored
C30_ValkeyReturnsExisting ==
    [][\A c \in Callers :
          (backend = "Valkey" /\ callers[c].pc = "idle" /\ callers'[c].pc = "returned")
          => /\ callers'[c].result = Some(sessions[callers'[c].session_id])
             /\ sessions' = sessions]_vars

\* Valkey backend: two calls for one new id returned sessions created at
\* different times for different origins
C30_TwoSessionsCreated ==
    /\ backend = "Valkey"
    /\ callers[1].pc = "returned"
    /\ callers[2].pc = "returned"
    /\ callers[1].session_id = "s1"
    /\ callers[2].session_id = "s1"
    /\ ~callers[1].reply.some
    /\ ~callers[2].reply.some
    /\ callers[1].result.val.origin_url # callers[2].result.val.origin_url
    /\ callers[1].result.val.created_at # callers[2].result.val.created_at

====
